---- MODULE Spec2Model ----
(***************************************************************************)
(* A model of the shrek-superslam library: the compression codec           *)
(* (src/src/compression.rs), the per-console number codec                  *)
(* (src/src/console.rs) and the .bin container with its typed object       *)
(* codecs (src/src/files/bin.rs, src/src/classes/).                        *)
(*                                                                         *)
(* Byte buffers (Vec<u8>, &[u8]) are sequences of 0..255.  Rust indexes    *)
(* from 0, sequences from 1: At(s, i) is s[i] of the source.  A Rust panic *)
(* (an index or a slice out of range, an unwrap of an Err) is the result   *)
(* kind "Panic"; an Err(..) value is the kind "Err".  An f32 is modelled   *)
(* by its 32-bit pattern.                                                  *)
(***************************************************************************)
EXTENDS Integers, Sequences, FiniteSets, TLC

VARIABLES
    cPc,        \* codec pipeline position: "input", "compressed", "done"
    cInput,     \* the bytes handed to compress
    cStream,    \* the compressed stream
    cOutput,    \* the result of decompress on cStream
    phase,      \* container: "bytes" (not parsed), "open", "failed", "aborted"
    bin_raw,    \* Bin.raw: the bytes of the .bin file
    bin_console, \* Bin.console
    bin_objects, \* Bin.objects: the stubs Bin::new enumerated
    parsed_len, \* the length of the file handed to Bin::new
    held,       \* the caller's in-memory object, and where it came from
    last,       \* the last call on the container and what it returned
    calls,      \* the number of reads and of writes made so far
    nPc,        \* number codec position: "input", "bytes", "written", "read"
    nConsole,   \* the console whose byte order is used
    nValue,     \* the u32, or the bits of the f32, handed to write_u32 / write_f32
    nBytes,     \* the bytes handed to read_u32 / read_f32
    nResult,    \* what read_u32 / read_f32 returned
    hName,      \* the characters handed to hash
    hResult,    \* what hash returned
    aPc,        \* archive position: "bytes" (MASTER.DIR not parsed), "open", "aborted"
    dir_bytes,  \* the bytes of a MASTER.DIR file
    dir_console, \* MasterDir.console
    dir_entries, \* MasterDir.entries
    dat_files,  \* MasterDat.files: the compressed bytes stored under each path
    aLast       \* the last call on the archive and what it returned

codecVars == <<cPc, cInput, cStream, cOutput>>

binVars == <<phase, bin_raw, bin_console, bin_objects, parsed_len, held, last, calls>>

numVars == <<nPc, nConsole, nValue, nBytes, nResult>>

hashVars == <<hName, hResult>>

archiveVars == <<aPc, dir_bytes, dir_console, dir_entries, dat_files, aLast>>

\* what neither the codec pipeline nor the container touches
otherVars == <<numVars, hashVars, archiveVars>>

vars == <<cPc, cInput, cStream, cOutput,
          phase, bin_raw, bin_console, bin_objects, parsed_len, held, last, calls,
          nPc, nConsole, nValue, nBytes, nResult, hName, hResult,
          aPc, dir_bytes, dir_console, dir_entries, dat_files, aLast>>

-----------------------------------------------------------------------------
(* Bytes and buffers                                                       *)

\* s[i] of the source (0-based)
At(s, i) == s[i + 1]

\* &s[lo..hi] of the source (0-based, hi exclusive); the caller checks the range
Slice(s, lo, hi) == SubSeq(s, lo + 1, hi)

\* whether &s[lo..hi] is a valid range of s (otherwise the slice panics)
SliceOk(s, lo, hi) == lo <= hi /\ hi <= Len(s)

\* Vec::splice(lo..hi, bytes): the range is replaced by the bytes
Splice(s, lo, hi, bytes) ==
    SubSeq(s, 1, lo) \o bytes \o SubSeq(s, hi + 1, Len(s))

\* `let x = e;` of the source, e computed once: Let([x \in {e} |-> rest])
Let(f) == f[CHOOSE x \in DOMAIN f : TRUE]

Ok(v) == [kind |-> "Ok", val |-> v]
Err(e) == [kind |-> "Err", err |-> e]
Panic == [kind |-> "Panic"]
NoResult == [kind |-> "None"]

\* no number is being converted, no name hashed, no archive open
NumIdle ==
    /\ nPc = "idle"
    /\ nConsole = "PC"
    /\ nValue = <<0, 0, 0, 0>>
    /\ nBytes = <<>>
    /\ nResult = NoResult

HashIdle == hName = <<>> /\ hResult = NoResult

ArchiveIdle ==
    /\ aPc = "idle"
    /\ dir_bytes = <<>>
    /\ dir_console = "PC"
    /\ dir_entries = <<>>
    /\ dat_files = <<>>
    /\ aLast = [op |-> "none"]

OthersIdle == NumIdle /\ HashIdle /\ ArchiveIdle

\* the 0-based indices at which two buffers of the same length differ
RECURSIVE Diff(_, _, _, _)
Diff(a, b, lo, hi) ==
    IF lo > hi \/ SubSeq(a, lo, hi) = SubSeq(b, lo, hi) THEN {}
    ELSE IF lo = hi THEN {lo - 1}
    ELSE LET mid == (lo + hi) \div 2 IN
         Diff(a, b, lo, mid) \cup Diff(a, b, mid + 1, hi)

Changed(before, after) ==
    LET n == IF Len(before) < Len(after) THEN Len(before) ELSE Len(after) IN
    Diff(before, after, 1, n)

-----------------------------------------------------------------------------
(* src/src/compression.rs                                                  *)

MAX_DISTANCE == 65821

\* compress, line 26-33: as many max-length blocks as remain
RECURSIVE CompressBlocks(_, _, _)
CompressBlocks(decompressed, index, compressed) ==
    LET remaining == Len(decompressed) - index IN
    IF remaining > MAX_DISTANCE
    THEN CompressBlocks(decompressed, index + MAX_DISTANCE,
             compressed \o <<248, 255, 255>>
                        \o Slice(decompressed, index, index + MAX_DISTANCE))
    ELSE [index |-> index, compressed |-> compressed]

\* the final header with the two bytes of the extended form in the other
\* order: the output format must tell it from FinalHeader
FinalHeader_swapped(remaining) ==
    IF remaining > 285
    THEN LET header == remaining - 286 IN
         <<248, (header \div 256) % 256, header % 256>>
    ELSE IF remaining > 29
    THEN <<240, (remaining - 30) % 256>>
    ELSE <<(remaining * 8) % 256>>

\* compress, line 36-48: the header of the final block
FinalHeader(remaining) ==
    IF remaining > 285
    THEN LET header == remaining - 286 IN
         <<248, header % 256, (header \div 256) % 256>>
    ELSE IF remaining > 29
    THEN <<240, (remaining - 30) % 256>>
    ELSE <<(remaining * 8) % 256>>

compress(decompressed) ==
    LET b == CompressBlocks(decompressed, 0, <<>>)
        remaining == Len(decompressed) - b.index
    IN  b.compressed \o FinalHeader(remaining)
                     \o Slice(decompressed, b.index, Len(decompressed))
                     \o <<0, 0>>

\* a copy that takes every byte from the place the first one comes from: the
\* output of a back-reference longer than its distance must tell it from
\* CopyBack
CopyBack_fixed(decompressed, distance, length) ==
    IF length = 0 THEN Ok(decompressed)
    ELSE IF Len(decompressed) - 1 - distance < 0 THEN Panic
    ELSE Ok(decompressed \o [i \in 1..length |->
                                At(decompressed, Len(decompressed) - 1 - distance)])

\* decompress, line 133-136: the rolling copy, one byte at a time
RECURSIVE CopyBack(_, _, _)
CopyBack(decompressed, distance, length) ==
    IF length = 0 THEN Ok(decompressed)
    ELSE IF Len(decompressed) - 1 - distance < 0 THEN Panic
    ELSE CopyBack(Append(decompressed,
                         At(decompressed, Len(decompressed) - 1 - distance)),
                  distance, length - 1)

\* decompress, line 116-131: the distance of a back-reference token
BackDistance(compressed, index, distance) ==
    IF distance = 30
    THEN IF index >= Len(compressed) THEN Panic
         ELSE Ok([distance |-> At(compressed, index) + 30, index |-> index + 1])
    ELSE IF distance > 30
    THEN IF index + 1 >= Len(compressed) THEN Panic
         ELSE Ok([distance |-> distance + At(compressed, index)
                                 + At(compressed, index + 1) * 256 + 255,
                  index |-> index + 2])
    ELSE Ok([distance |-> distance, index |-> index])

\* the back-reference tokens of a decoder that takes the end of the stream for
\* the terminator's length byte: the minimal stream must tell it from
\* BackTokens
RECURSIVE BackTokens_lenient(_, _, _, _)
BackTokens_lenient(compressed, index, decompressed, bound) ==
    IF bound = 0
    THEN [kind |-> "Next", index |-> index, decompressed |-> decompressed]
    ELSE IF index >= Len(compressed) THEN Panic
    ELSE
    LET current == At(compressed, index)
        length0 == current % 8
        distance0 == current \div 8
    IN  IF length0 = 0 /\ (index + 1 >= Len(compressed)
                           \/ At(compressed, index + 1) = 0)
        THEN [kind |-> "Return", decompressed |-> decompressed]
        ELSE
        LET length == IF length0 = 0 THEN At(compressed, index + 1) + 7
                      ELSE length0
            index1 == IF length0 = 0 THEN index + 2 ELSE index + 1
            d == BackDistance(compressed, index1, distance0)
        IN  IF d.kind = "Panic" THEN Panic
            ELSE LET c == CopyBack(decompressed, d.val.distance, length) IN
                 IF c.kind = "Panic" THEN Panic
                 ELSE BackTokens_lenient(compressed, d.val.index, c.val, bound - 1)

\* decompress, line 101-137: `bound` back-reference tokens.  The result is
\* "Return" (the terminator was read), "Next" (go on with the outer loop)
\* or "Panic".
RECURSIVE BackTokens(_, _, _, _)
BackTokens(compressed, index, decompressed, bound) ==
    IF bound = 0
    THEN [kind |-> "Next", index |-> index, decompressed |-> decompressed]
    ELSE IF index >= Len(compressed) THEN Panic
    ELSE
    LET current == At(compressed, index)
        length0 == current % 8
        distance0 == current \div 8
    IN  IF length0 = 0 /\ index + 1 >= Len(compressed) THEN Panic
        ELSE IF length0 = 0 /\ At(compressed, index + 1) = 0
        THEN [kind |-> "Return", decompressed |-> decompressed]
        ELSE
        LET length == IF length0 = 0 THEN At(compressed, index + 1) + 7
                      ELSE length0
            index1 == IF length0 = 0 THEN index + 2 ELSE index + 1
            d == BackDistance(compressed, index1, distance0)
        IN  IF d.kind = "Panic" THEN Panic
            ELSE LET c == CopyBack(decompressed, d.val.distance, length) IN
                 IF c.kind = "Panic" THEN Panic
                 ELSE BackTokens(compressed, d.val.index, c.val, bound - 1)

\* decompress, line 71-93: the literal-run token at the head of a block
LiteralToken(compressed, index) ==
    IF index >= Len(compressed) THEN Panic
    ELSE
    LET current == At(compressed, index)
        length == (current % 8) + 1
        distance == current \div 8
    IN  IF distance = 30
        THEN IF index + 1 >= Len(compressed) THEN Panic
             ELSE Ok([length |-> length,
                      distance |-> At(compressed, index + 1) + 30,
                      index |-> index + 2])
        ELSE IF distance > 30
        THEN IF index + 2 >= Len(compressed) THEN Panic
             ELSE LET dist == distance + At(compressed, index + 1)
                                + At(compressed, index + 2) * 256 + 255
                  IN  Ok([length |-> IF dist = MAX_DISTANCE THEN length - 1
                                     ELSE length,
                          distance |-> dist,
                          index |-> index + 3])
        ELSE Ok([length |-> length, distance |-> distance, index |-> index + 1])

\* decompress, line 70-138: the outer loop, one block per call
RECURSIVE DecompressLoop(_, _, _)
DecompressLoop(compressed, index, decompressed) ==
    LET t == LiteralToken(compressed, index) IN
    IF t.kind = "Panic" THEN Panic
    ELSE IF t.val.distance # 0
            /\ ~SliceOk(compressed, t.val.index, t.val.index + t.val.distance)
    THEN Panic
    ELSE
    LET out == IF t.val.distance # 0
               THEN decompressed \o Slice(compressed, t.val.index,
                                          t.val.index + t.val.distance)
               ELSE decompressed
        index1 == IF t.val.distance # 0 THEN t.val.index + t.val.distance
                  ELSE t.val.index
        b == BackTokens(compressed, index1, out, t.val.length)
    IN  IF b.kind = "Panic" THEN Panic
        ELSE IF b.kind = "Return" THEN Ok(b.decompressed)
        ELSE DecompressLoop(compressed, b.index, b.decompressed)

decompress(compressed) == DecompressLoop(compressed, 0, <<>>)

-----------------------------------------------------------------------------
(* 32-bit numbers.  TLC's integers end at 2^31 - 1, so a u32 (and the bit   *)
(* pattern of an f32) is held as its four base-256 digits, most significant *)
(* first: 0xEBF07BB5 is <<235, 240, 123, 181>>.                             *)

\* the u32 of a number below 2^31
W(n) == <<(n \div 16777216) % 256, (n \div 65536) % 256, (n \div 256) % 256, n % 256>>

\* an index at or beyond 2^30 lies beyond every buffer of the model: it is held
\* as TooBig, which lies beyond every buffer too
TooBig == 64 * 16777216

\* `w as usize`
Usize(w) ==
    IF w[1] >= 64 THEN TooBig
    ELSE ((w[1] * 256 + w[2]) * 256 + w[3]) * 256 + w[4]

\* the halves of a u32, and the u32 of two halves
Hi(w) == w[1] * 256 + w[2]
Lo(w) == w[3] * 256 + w[4]
Word(hi, lo) == <<hi \div 256, hi % 256, lo \div 256, lo % 256>>

\* a + b in u32: the wrapped sum, and whether the sum passed 2^32 (a debug build
\* panics there, a release build wraps)
AddU32(a, b) ==
    LET lo == Lo(a) + Lo(b)
        hi == Hi(a) + Hi(b) + (lo \div 65536) IN
    [val |-> Word(hi % 65536, lo % 65536), overflow |-> hi >= 65536]

\* a * k in u32, for a constant k of the source (at most 0x80)
MulU32(a, k) ==
    LET lo == Lo(a) * k
        hi == Hi(a) * k + (lo \div 65536) IN
    [val |-> Word(hi % 65536, lo % 65536), overflow |-> hi >= 65536]

-----------------------------------------------------------------------------
(* src/src/console.rs                                                      *)

Consoles == {"Gamecube", "PC", "PS2", "Xbox"}

TooFewBytes == [type |-> "ConsoleNumberError"]

\* read_u32 reading big-endian on every console: the round trip must tell it
\* from read_u32
read_u32_big(c, bytes) ==
    IF Len(bytes) < 4 THEN Err(TooFewBytes)
    ELSE Ok(<<bytes[1], bytes[2], bytes[3], bytes[4]>>)

\* Console::read_u32: big-endian on the Gamecube, little-endian elsewhere
read_u32(c, bytes) ==
    IF Len(bytes) < 4 THEN Err(TooFewBytes)
    ELSE IF c = "Gamecube"
    THEN Ok(<<bytes[1], bytes[2], bytes[3], bytes[4]>>)
    ELSE Ok(<<bytes[4], bytes[3], bytes[2], bytes[1]>>)

\* write_u32 writing big-endian for the PS2 too: the byte order per console
\* must tell it from write_u32
write_u32_ps2(c, n) ==
    IF c \in {"Gamecube", "PS2"} THEN <<n[1], n[2], n[3], n[4]>>
    ELSE <<n[4], n[3], n[2], n[1]>>

\* Console::write_u32
write_u32(c, n) ==
    IF c = "Gamecube" THEN <<n[1], n[2], n[3], n[4]>> ELSE <<n[4], n[3], n[2], n[1]>>

\* read_f32 taking the last four bytes it is given: the reads of long inputs
\* must tell it from read_f32
read_f32_last(c, bytes) ==
    IF Len(bytes) < 4 THEN Err(TooFewBytes)
    ELSE Let([n \in {Len(bytes)} |->
         IF c = "Gamecube"
         THEN Ok(<<bytes[n - 3], bytes[n - 2], bytes[n - 1], bytes[n]>>)
         ELSE Ok(<<bytes[n], bytes[n - 1], bytes[n - 2], bytes[n - 3]>>)])

\* Console::read_f32: the bytes, in the console's order, are the float's bits
read_f32(c, bytes) ==
    IF Len(bytes) < 4 THEN Err(TooFewBytes)
    ELSE IF c = "Gamecube"
    THEN Ok(<<bytes[1], bytes[2], bytes[3], bytes[4]>>)
    ELSE Ok(<<bytes[4], bytes[3], bytes[2], bytes[1]>>)

\* Console::write_f32
write_f32(c, n) ==
    IF c = "Gamecube" THEN <<n[1], n[2], n[3], n[4]>> ELSE <<n[4], n[3], n[2], n[1]>>

-----------------------------------------------------------------------------
(* src/src/classes/mod.rs: the registry of class hashes                    *)

\* hash_lookup: the match arms <<hash, name>>, in order
HashTable ==
    << <<<<185, 116, 229, 59>>, "Game::GameWorld">>,
       <<<<194, 57, 225, 171>>, "Game::RotationObject">>,
       <<<<231, 222, 56, 109>>, "Game::FrozenObject">>,
       <<<<200, 24, 88, 167>>, "Game::HitPointObject">>,
       <<<<217, 74, 242, 103>>, "Game::DangerObject">>,
       <<<<144, 183, 247, 217>>, "Game::LoopingCombinationObject">>,
       <<<<239, 154, 20, 152>>, "Game::EffectObject">>,
       <<<<152, 72, 173, 24>>, "Game::SoundObject">>, <<<<147, 134, 213, 248>>, "Game::SoundBox">>,
       <<<<133, 11, 155, 47>>, "Game::ForceBox">>,
       <<<<206, 85, 83, 127>>, "Game::DestructibleObject">>,
       <<<<135, 192, 29, 97>>, "Game::ReplacementItemSpawner">>,
       <<<<205, 71, 170, 43>>, "Game::ItemSpawner">>,
       <<<<161, 119, 58, 33>>, "Game::PlayerEffect">>,
       <<<<195, 32, 255, 24>>, "Game::EffectStarter">>,
       <<<<219, 251, 74, 53>>, "Game::ObjectInitializer">>,
       <<<<154, 205, 10, 209>>, "Game::PadTrigger">>, <<<<148, 20, 168, 7>>, "Game::HintTrigger">>,
       <<<<238, 252, 75, 60>>, "Game::PlayerFlagTrigger">>,
       <<<<213, 8, 222, 243>>, "Game::HoldingItemTrigger">>,
       <<<<193, 203, 57, 138>>, "Game::ItemTrigger">>,
       <<<<178, 86, 154, 141>>, "Game::TriggerTeleport">>,
       <<<<181, 118, 183, 160>>, "Game::TriggerMode">>,
       <<<<192, 69, 140, 26>>, "Game::TriggerEventSequence">>,
       <<<<187, 136, 40, 232>>, "Game::Trigger">>, <<<<144, 216, 252, 214>>, "Game::Spitter">>,
       <<<<132, 173, 126, 112>>, "Game::SpitterKeyframe">>,
       <<<<158, 221, 43, 219>>, "Game::ShellController">>,
       <<<<203, 74, 70, 205>>, "Game::PadStatus">>, <<<<169, 149, 193, 126>>, "Game::LoseOnTime">>,
       <<<<187, 23, 218, 64>>, "Game::WinThreshold">>,
       <<<<150, 6, 122, 44>>, "Game::LoseOnNoLives">>,
       <<<<211, 45, 185, 59>>, "Game::LoseIfTeamMemberLoses">>,
       <<<<172, 80, 210, 13>>, "Game::WinOnCount">>, <<<<191, 204, 137, 13>>, "Game::WinOnPoints">>,
       <<<<209, 158, 162, 24>>, "Game::AlwaysHavePowerup">>,
       <<<<196, 150, 190, 247>>, "Game::AlwaysHaveWeapon">>,
       <<<<185, 184, 77, 17>>, "Game::RespawnAtTimes">>,
       <<<<156, 50, 23, 66>>, "Game::RespawnOnPlayerSlammed">>,
       <<<<237, 248, 251, 37>>, "Game::RespawnIfPlayerDead">>,
       <<<<152, 77, 155, 250>>, "Game::RespawnAfterDeath">>,
       <<<<250, 228, 148, 26>>, "Game::AIDifficulty">>,
       <<<<147, 86, 8, 58>>, "Game::AIRampDifficultyByRound">>,
       <<<<224, 82, 145, 24>>, "Game::AIRampDifficultyOnLives">>,
       <<<<157, 106, 80, 49>>, "Game::AIHateForBeingHit">>,
       <<<<243, 191, 188, 117>>, "Game::AIHatePlayer">>,
       <<<<251, 183, 137, 13>>, "Game::AIAllSettings">>, <<<<177, 6, 63, 78>>, "Game::AISettings">>,
       <<<<230, 49, 119, 37>>, "Game::AIHateRule">>,
       <<<<239, 148, 38, 142>>, "Game::DieOnTrigger">>,
       <<<<187, 228, 86, 158>>, "Game::DieOnSlam">>, <<<<169, 253, 44, 171>>, "Game::RaceScoring">>,
       <<<<253, 147, 151, 169>>, "Game::ScoreUniqueSpitters">>,
       <<<<184, 72, 174, 68>>, "Game::CountScoreThreshold">>,
       <<<<207, 125, 182, 62>>, "Game::PointsForStat">>,
       <<<<162, 247, 18, 220>>, "Game::PointsForMove">>,
       <<<<131, 139, 35, 142>>, "Game::PointsForHolding">>,
       <<<<200, 108, 1, 155>>, "Game::PointsForTrigger">>,
       <<<<194, 61, 219, 38>>, "Game::PointsForPickup">>,
       <<<<205, 191, 113, 237>>, "Game::PointsForSlammingPlayer">>,
       <<<<240, 220, 185, 36>>, "Game::PointsForMultislam">>,
       <<<<214, 28, 81, 214>>, "Game::ReverseSlamScoring">>,
       <<<<176, 208, 196, 99>>, "Game::StandardSlamScoring">>,
       <<<<163, 8, 100, 209>>, "Game::HitLoseMass">>,
       <<<<238, 141, 136, 208>>, "Game::SlamDropCandy">>,
       <<<<135, 115, 166, 132>>, "Game::HitDropCandy">>,
       <<<<174, 151, 101, 113>>, "Game::MoveFilter">>,
       <<<<185, 226, 133, 91>>, "Game::HitGainOverTime">>,
       <<<<227, 98, 253, 92>>, "Game::HitSlamMeterFull">>,
       <<<<202, 223, 139, 51>>, "Game::HitDrainPower">>,
       <<<<185, 153, 231, 76>>, "Game::HitGainPower">>,
       <<<<183, 27, 131, 104>>, "Game::StandardHitCalculations">>,
       <<<<167, 53, 180, 57>>, "Game::WinRule">>, <<<<172, 53, 123, 7>>, "Game::ScoreRule">>,
       <<<<177, 48, 98, 235>>, "Game::Ruleset">>, <<<<166, 252, 129, 160>>, "Game::RenderSpawn">>,
       <<<<137, 140, 229, 240>>, "Game::CollisionBone">>,
       <<<<158, 8, 102, 118>>, "Game::RenderBase">>,
       <<<<250, 202, 123, 114>>, "Game::CompoundLock">>,
       <<<<198, 111, 27, 15>>, "Game::DebugAlwaysLock">>,
       <<<<179, 39, 131, 127>>, "Game::AllTrophyLock">>,
       <<<<135, 124, 38, 128>>, "Game::AllBadgesLock">>,
       <<<<243, 126, 11, 68>>, "Game::CharacterPlayedLock">>,
       <<<<249, 74, 206, 253>>, "Game::StatLock">>, <<<<194, 33, 12, 221>>, "Game::TimeLock">>,
       <<<<153, 64, 75, 239>>, "Game::SlamCountLock">>,
       <<<<163, 197, 43, 203>>, "Game::LadderClearLock">>,
       <<<<231, 228, 122, 199>>, "Game::PointsClearedLock">>,
       <<<<163, 74, 86, 224>>, "Game::ClusterClearedLock">>,
       <<<<219, 149, 201, 36>>, "Game::ModeUnLockedLock">>,
       <<<<253, 31, 222, 126>>, "Game::LevelClearedLock">>, <<<<239, 24, 116, 62>>, "Game::Lock">>,
       <<<<134, 237, 145, 46>>, "Game::PrescribedMovement">>,
       <<<<226, 119, 116, 15>>, "Game::ApplauseMovementType">>,
       <<<<128, 70, 191, 88>>, "Game::PanicRunMovementType">>,
       <<<<158, 230, 78, 186>>, "Game::MagnetToPointMovementType">>,
       <<<<154, 106, 20, 168>>, "Game::MagnetMovementType">>,
       <<<<251, 9, 219, 187>>, "Game::FrozenMovementType">>,
       <<<<193, 71, 197, 114>>, "Game::PinataMovementType">>,
       <<<<168, 89, 223, 238>>, "Game::AttachToHavokObjMovementType">>,
       <<<<242, 77, 157, 48>>, "Game::GravityWandMovementType">>,
       <<<<207, 97, 124, 126>>, "Game::PrescribedMovementType">>,
       <<<<173, 221, 241, 236>>, "Game::PhysicsFighting">>,
       <<<<137, 78, 58, 233>>, "Game::ComboSpec">>, <<<<144, 105, 81, 105>>, "Game::BufferedMove">>,
       <<<<150, 22, 164, 160>>, "Game::AttackMove">>,
       <<<<235, 240, 123, 181>>, "Game::AttackMoveType">>,
       <<<<242, 207, 224, 141>>, "Game::AttackMoveRegion">>,
       <<<<180, 79, 208, 96>>, "Game::PhysicsModelSimplePed">>,
       <<<<219, 128, 174, 140>>, "Game::ContactStateModelConstrained">>,
       <<<<216, 134, 191, 27>>, "Game::ContactStateModelAirborn">>,
       <<<<228, 40, 136, 76>>, "Game::ContactStateModelGround">>,
       <<<<173, 134, 30, 99>>, "Game::ContactStateModelBase">>,
       <<<<234, 153, 223, 129>>, "Game::PhysicsBase">>,
       <<<<229, 31, 197, 176>>, "Game::perlin_noise_changing">>,
       <<<<183, 170, 97, 12>>, "Game::perlin_noise3d">>,
       <<<<228, 56, 227, 33>>, "Game::perlin_noise">>,
       <<<<178, 52, 243, 90>>, "Game::perlin_noise_params">>,
       <<<<247, 183, 99, 241>>, "Game::LadderSetup">>,
       <<<<160, 196, 204, 47>>, "Game::CinematicMode">>, <<<<236, 68, 21, 64>>, "Game::Mode">>,
       <<<<173, 154, 44, 178>>, "Game::PreloadData">>, <<<<149, 23, 38, 22>>, "Game::Level">>,
       <<<<232, 120, 19, 186>>, "Game::LevelMesh">>,
       <<<<147, 174, 134, 156>>, "Game::NodeSetUp3D">>,
       <<<<220, 39, 199, 129>>, "Game::NodeSetUp2DWithTackOn">>,
       <<<<193, 226, 19, 74>>, "Game::NodeSetUp2D">>, <<<<131, 64, 207, 15>>, "Game::NodeSetUp1D">>,
       <<<<146, 84, 48, 203>>, "Game::NodeSetUp">>,
       <<<<129, 251, 115, 148>>, "Game::SetValuePairString">>,
       <<<<146, 186, 201, 212>>, "Game::SetValuePairObject">>,
       <<<<203, 8, 185, 194>>, "Game::SetValuePair">>,
       <<<<180, 129, 127, 22>>, "Game::RefObjNavNode">>,
       <<<<152, 20, 66, 111>>, "Game::HUDAIOptionsNavNode">>,
       <<<<254, 240, 130, 192>>, "Game::SetupOptionsNavNode">>,
       <<<<134, 124, 56, 251>>, "Game::MeleeOptionsNavNode">>,
       <<<<224, 82, 7, 12>>, "Game::FunctionalityNavNode">>,
       <<<<177, 254, 160, 0>>, "Game::InterfaceNavNode">>,
       <<<<235, 35, 9, 126>>, "Game::InterfaceNavNodeStub">>,
       <<<<177, 241, 168, 72>>, "Game::NodeAffectGroup">>,
       <<<<152, 159, 99, 143>>, "Game::InterfaceLayout">>,
       <<<<141, 141, 32, 175>>, "Game::HudModeOptions">>,
       <<<<128, 242, 128, 38>>, "Game::ShellCharacterSelectMenu">>,
       <<<<142, 128, 237, 39>>, "Game::HUDSummaryControl">>,
       <<<<179, 64, 225, 142>>, "Game::ModelStatusIndicator">>,
       <<<<140, 34, 169, 18>>, "Game::LockedListenerDisplay">>,
       <<<<190, 67, 215, 124>>, "Game::InWorldMenuWrap">>,
       <<<<146, 80, 57, 200>>, "Game::ModeCompletionDisplay">>,
       <<<<230, 126, 220, 93>>, "Game::NavigationLock">>,
       <<<<250, 98, 220, 95>>, "Game::BonusDisplayShellMenu">>,
       <<<<211, 211, 27, 202>>, "Game::ModeClusterShellMenu">>,
       <<<<181, 74, 236, 224>>, "Game::NavNodeTree">>,
       <<<<252, 61, 123, 25>>, "Game::InterfaceScrollMenu">>,
       <<<<134, 253, 70, 26>>, "Game::InterfaceMenu">>,
       <<<<222, 101, 246, 107>>, "Game::SimpleKeyMapMenu">>,
       <<<<205, 195, 218, 42>>, "Game::InterfaceMenuStub">>,
       <<<<239, 126, 213, 248>>, "Game::ShellUnlockableDisplay">>,
       <<<<160, 48, 254, 46>>, "Game::LadderDisplay">>,
       <<<<163, 59, 73, 73>>, "Game::TeamFlagDisplay">>,
       <<<<170, 122, 119, 58>>, "Game::ShellCharacterModelDisplay">>,
       <<<<197, 198, 149, 243>>, "Game::ModelDisplay">>,
       <<<<214, 229, 214, 34>>, "Game::InWorldModelDisplay">>,
       <<<<209, 218, 231, 119>>, "Game::InterfaceModel">>,
       <<<<235, 56, 8, 24>>, "Game::HudModeTimer">>,
       <<<<198, 140, 34, 246>>, "Game::HudWinPointDisplay">>,
       <<<<230, 156, 103, 17>>, "Game::HudSimpleModeInfoDisplay">>,
       <<<<134, 88, 85, 27>>, "Game::ShellModeInfoDisplay">>,
       <<<<164, 26, 28, 191>>, "Game::HudSimplePreGameDisplay">>,
       <<<<225, 71, 124, 170>>, "Game::HudWinningSoundPlayer">>,
       <<<<206, 129, 160, 81>>, "Game::StringFlasher">>,
       <<<<176, 221, 205, 83>>, "Game::HudPregameDisplay">>,
       <<<<184, 157, 78, 136>>, "Game::HudTeamInfoDisplay">>,
       <<<<251, 13, 75, 173>>, "Game::HudCharInfoDisplay">>,
       <<<<154, 103, 56, 116>>, "Game::HoldKeyDisplay">>,
       <<<<155, 34, 38, 193>>, "Game::HudMedalDisplay">>,
       <<<<236, 120, 179, 158>>, "Game::ItemScroll">>,
       <<<<225, 98, 129, 117>>, "Game::GameFunctionalInfoItem">>,
       <<<<253, 34, 140, 70>>, "Game::GameProgressInfoItem">>,
       <<<<176, 27, 51, 122>>, "Game::HudCharInfoItem">>,
       <<<<200, 108, 127, 104>>, "Game::PadUnplugMessage">>,
       <<<<156, 60, 224, 253>>, "Game::HudSlamUpdater">>,
       <<<<207, 79, 148, 42>>, "Game::HudCharacterDisplay">>,
       <<<<194, 49, 83, 207>>, "Game::InterfaceDisplayObject">>,
       <<<<134, 208, 171, 200>>, "Game::HudCinematic">>,
       <<<<252, 167, 217, 111>>, "Game::HudMelee">>, <<<<162, 206, 217, 203>>, "Game::Hud">>,
       <<<<243, 46, 187, 169>>, "Game::LoadingScreen">>,
       <<<<136, 113, 161, 29>>, "Game::ModeCluster">>, <<<<187, 251, 5, 84>>, "Game::ModeLoader">>,
       <<<<226, 187, 25, 195>>, "Game::PlayerEntity">>,
       <<<<187, 55, 235, 67>>, "Game::LevelMaxCamera">>,
       <<<<201, 184, 52, 212>>, "Game::LevelCamera">>,
       <<<<128, 85, 126, 151>>, "Game::GlobalMachine">>,
       <<<<210, 221, 4, 54>>, "Game::EventPlayEventSequence">>,
       <<<<189, 96, 101, 182>>, "Game::EventItemSetState">>,
       <<<<157, 103, 135, 112>>, "Game::EventPropSetPositionOrientation">>,
       <<<<238, 222, 51, 227>>, "Game::EventMultiEffect">>,
       <<<<245, 119, 63, 72>>, "Game::EventEffectOnManyObjects">>,
       <<<<254, 151, 196, 143>>, "Game::EventEffect">>,
       <<<<174, 202, 12, 175>>, "Game::EventCameraFov">>,
       <<<<144, 211, 128, 69>>, "Game::EventCameraLookAtPoint">>,
       <<<<149, 142, 182, 29>>, "Game::EventCameraLookAt">>,
       <<<<211, 169, 169, 236>>, "Game::EventCameraPositionPoint">>,
       <<<<191, 11, 150, 48>>, "Game::EventCameraPosition">>,
       <<<<151, 207, 243, 152>>, "Game::EventCameraFinish">>,
       <<<<186, 94, 117, 15>>, "Game::EventCameraMaxCamTarget">>,
       <<<<139, 255, 132, 138>>, "Game::EventCameraMaxCamPosition">>,
       <<<<211, 190, 94, 8>>, "Game::EventCameraMaxCam">>,
       <<<<137, 216, 12, 222>>, "Game::EventEntityQuickSetPositionOrient">>,
       <<<<134, 146, 173, 167>>, "Game::EventEntityTeleport">>,
       <<<<244, 92, 193, 178>>, "Game::EventEntitySetOrient">>,
       <<<<179, 59, 183, 162>>, "Game::EventEntitySetPosition">>,
       <<<<168, 7, 225, 207>>, "Game::EventEntityClearState">>,
       <<<<239, 94, 221, 132>>, "Game::EventEntitySetState">>,
       <<<<152, 84, 38, 215>>, "Game::EventEntityPropDrop">>,
       <<<<245, 102, 207, 213>>, "Game::EventEntityPropGet">>,
       <<<<171, 47, 38, 17>>, "Game::EventChangeDestructibleObjectReset">>,
       <<<<156, 98, 78, 226>>, "Game::EventHavokObjectsReset">>,
       <<<<219, 103, 125, 104>>, "Game::EventHavokObjectsUnhide">>,
       <<<<236, 120, 108, 236>>, "Game::EventHavokObjectsHide">>,
       <<<<253, 94, 235, 211>>, "Game::EventEnableItemTriggers">>,
       <<<<146, 81, 244, 19>>, "Game::EventDisableItemTriggers">>,
       <<<<251, 47, 218, 174>>, "Game::EventEnableTriggers">>,
       <<<<234, 57, 63, 221>>, "Game::EventDisableTriggers">>,
       <<<<191, 119, 194, 35>>, "Game::EventEnableForceBoxes">>,
       <<<<175, 53, 208, 184>>, "Game::EventDisableForceBoxes">>,
       <<<<140, 25, 198, 221>>, "Game::EventObjectsAnimateUnpause">>,
       <<<<179, 193, 221, 151>>, "Game::EventObjectsAnimateStop">>,
       <<<<129, 75, 160, 27>>, "Game::EventObjectsAnimatePause">>,
       <<<<215, 191, 124, 26>>, "Game::EventObjectsAnimate">>,
       <<<<224, 121, 197, 94>>, "Game::EventObjectsUnhide">>,
       <<<<245, 84, 202, 122>>, "Game::EventObjectsHide">>,
       <<<<207, 51, 105, 64>>, "Game::EventObjectsAll">>,
       <<<<133, 167, 205, 145>>, "Game::EventPlayWinSound">>,
       <<<<187, 175, 95, 157>>, "Game::EventPlayNameSound">>,
       <<<<136, 40, 90, 239>>, "Game::EventStopSound">>,
       <<<<208, 71, 134, 238>>, "Game::EventPlaySound">>,
       <<<<199, 58, 11, 176>>, "Game::EventPrintOnScreen">>,
       <<<<209, 144, 70, 244>>, "Game::EventResetHitPointObject">>,
       <<<<177, 205, 191, 242>>, "Game::EventDisableEventSpawnItems">>,
       <<<<194, 58, 7, 0>>, "Game::EventSetDeflectionIncrease">>,
       <<<<255, 231, 128, 84>>, "Game::EventChangeTargetType">>,
       <<<<222, 164, 60, 237>>, "Game::EventAddTargetObject">>,
       <<<<186, 93, 47, 231>>, "Game::EventPrintDebug">>,
       <<<<252, 189, 68, 233>>, "Game::EventPlayerControl">>,
       <<<<240, 119, 112, 135>>, "Game::EventLight">>,
       <<<<208, 180, 28, 48>>, "Game::EventFontTex">>,
       <<<<160, 196, 204, 243>>, "Game::FontTexTemplateForEvent">>,
       <<<<233, 122, 83, 47>>, "Game::EventTexBox">>,
       <<<<220, 219, 79, 123>>, "Game::EventFontBoxALT">>,
       <<<<227, 61, 154, 210>>, "Game::EventFontBox">>,
       <<<<253, 122, 162, 92>>, "Game::EventFade">>,
       <<<<242, 168, 44, 156>>, "Game::EventPlayMovie">>,
       <<<<214, 141, 235, 31>>, "Game::EventEnableDisableItemSpawner">>,
       <<<<217, 222, 177, 62>>, "Game::EventModifyPower">>,
       <<<<209, 231, 88, 35>>, "Game::EventKillPlayer">>,
       <<<<191, 20, 188, 201>>, "Game::EventSpawnItemAtPlayer">>,
       <<<<236, 30, 213, 4>>, "Game::EventSpawnItem">>,
       <<<<234, 10, 248, 208>>, "Game::EventAIAllSettings">>,
       <<<<227, 234, 118, 51>>, "Game::EventAISettings">>,
       <<<<232, 251, 56, 38>>, "Game::EventAIHate">>, <<<<188, 198, 80, 247>>, "Game::Event">>,
       <<<<210, 70, 52, 254>>, "Game::EventSequence">>, <<<<221, 236, 2, 78>>, "Game::Entity">>,
       <<<<196, 61, 66, 13>>, "Game::EffectStringReference">>,
       <<<<165, 182, 1, 109>>, "Game::EffectManager">>,
       <<<<166, 214, 107, 231>>, "Game::DynamicDataTimedEffects">>,
       <<<<245, 107, 174, 186>>, "Game::EffectID">>,
       <<<<163, 50, 138, 43>>, "Game::DynamicRumbleEffectData">>,
       <<<<232, 168, 91, 194>>, "Game::EffectRumbleType">>,
       <<<<242, 234, 249, 117>>, "Game::DynamicGlowEffectData">>,
       <<<<174, 209, 199, 30>>, "Game::EffectGlowType">>,
       <<<<239, 115, 253, 224>>, "Game::DynamicParticleParams">>,
       <<<<168, 164, 110, 29>>, "Game::EmitterType">>, <<<<131, 26, 111, 178>>, "Game::Trail">>,
       <<<<226, 177, 129, 208>>, "Game::TrailTypeB">>,
       <<<<156, 201, 54, 96>>, "Game::TrailUniversalParameters">>,
       <<<<148, 53, 237, 33>>, "Game::TrailBoneParameters">>,
       <<<<171, 168, 210, 46>>, "Game::TrailType">>,
       <<<<213, 107, 78, 18>>, "Game::DynamicCameraShakeEffectData">>,
       <<<<185, 207, 192, 177>>, "Game::EffectCamShakeType">>,
       <<<<217, 81, 136, 164>>, "Game::DynamicLightEffectData">>,
       <<<<197, 29, 104, 123>>, "Game::EffectLightType">>,
       <<<<201, 247, 206, 57>>, "Game::DynamicColorEffectData">>,
       <<<<190, 88, 244, 24>>, "Game::EffectFadeOpacity">>,
       <<<<217, 12, 244, 8>>, "Game::EffectColorType">>,
       <<<<195, 141, 14, 57>>, "Game::DynamicSoundEffectData">>,
       <<<<173, 134, 7, 125>>, "Game::EffectSound">>,
       <<<<192, 236, 131, 62>>, "Game::DynamicScaleEffectData">>,
       <<<<163, 178, 249, 136>>, "Game::EffectScale">>,
       <<<<156, 95, 249, 170>>, "Game::DynamicEffectDataParams">>,
       <<<<138, 71, 206, 193>>, "Game::EffectOnEffect">>,
       <<<<139, 82, 93, 226>>, "Game::OrbiterType">>,
       <<<<250, 75, 190, 166>>, "Game::EffectCloneMesh">>,
       <<<<162, 130, 238, 38>>, "Game::EffectType">>,
       <<<<252, 11, 107, 228>>, "Game::z_mesh_common_class_do_not_use">>,
       <<<<172, 68, 7, 151>>, "Game::EffectBase">>,
       <<<<200, 224, 192, 63>>, "Game::DynamicThrowable">>,
       <<<<158, 87, 116, 81>>, "Game::Throwable">>,
       <<<<214, 234, 220, 122>>, "Game::ThrowableType">>, <<<<206, 21, 26, 227>>, "Game::Powerup">>,
       <<<<190, 123, 68, 186>>, "Game::PowerupType">>, <<<<241, 232, 133, 46>>, "Game::Potion">>,
       <<<<240, 92, 123, 211>>, "Game::PotionType">>, <<<<208, 235, 76, 145>>, "Game::Weapon">>,
       <<<<254, 57, 42, 182>>, "Game::WeaponType">>, <<<<184, 93, 74, 118>>, "Game::Prop">>,
       <<<<156, 226, 216, 220>>, "Game::PropType">>, <<<<198, 134, 76, 125>>, "Game::Item">>,
       <<<<200, 136, 176, 229>>, "Game::ItemType">>, <<<<241, 147, 237, 87>>, "Game::Projectile">>,
       <<<<136, 17, 41, 46>>, "Game::ProjectileType">>, <<<<241, 47, 123, 31>>, "Game::Target">>,
       <<<<172, 248, 23, 136>>, "Game::camManager">>, <<<<143, 91, 45, 74>>, "Game::camLevelSpec">>,
       <<<<200, 166, 35, 43>>, "Game::camBehaviorTrackEntity">>,
       <<<<162, 2, 146, 42>>, "Game::camBehaviorFourPlayer">>,
       <<<<255, 67, 70, 18>>, "Game::camBehaviorThreeAngle">>,
       <<<<140, 241, 102, 36>>, "Game::camBehaviorThreeAngleClone">>,
       <<<<155, 101, 20, 251>>, "Game::camBehaviorFixedCam">>,
       <<<<182, 148, 41, 173>>, "Game::camBehaviorCombatSimple">>,
       <<<<200, 31, 92, 239>>, "Game::camBehaviorChase">>,
       <<<<135, 162, 128, 180>>, "Game::camBehaviorOrbit">>,
       <<<<133, 221, 64, 158>>, "Game::camBehaviorOffset">>,
       <<<<139, 3, 187, 178>>, "Game::camBehaviorStatic">>,
       <<<<184, 178, 9, 54>>, "Game::camBehaviorVert">>,
       <<<<185, 34, 166, 222>>, "Game::camBehavior">>, <<<<221, 221, 202, 32>>, "Game::Mark">>,
       <<<<211, 6, 216, 5>>, "Game::BehaviorFightingControlShrek">>,
       <<<<219, 119, 161, 226>>, "Game::Behavior">>,
       <<<<199, 165, 250, 44>>, "Game::MedalDisplay">>,
       <<<<240, 67, 103, 202>>, "Game::TrophyInitializer">>,
       <<<<143, 193, 167, 163>>, "Game::MedalRewardStat">>,
       <<<<186, 93, 22, 190>>, "Game::MedalRewardEvent">>, <<<<162, 39, 90, 140>>, "Game::Medal">>,
       <<<<163, 25, 212, 127>>, "Game::Trophy">>, <<<<197, 171, 239, 6>>, "Game::NavGraph">>,
       <<<<173, 167, 201, 2>>, "Game::NavResult">>, <<<<211, 86, 63, 29>>, "Game::NavArea">>,
       <<<<162, 119, 1, 168>>, "Game::NavAreaLink">>,
       <<<<172, 9, 50, 253>>, "Game::NavSplineLink">>, <<<<128, 219, 175, 207>>, "Game::NavLink">>,
       <<<<226, 173, 153, 128>>, "Game::BehaviorAIFighting">>,
       <<<<145, 14, 223, 166>>, "Game::PlanThread">>, <<<<155, 43, 26, 46>>, "Game::AIParams">>,
       <<<<254, 38, 135, 204>>, "Game::BehaviorElement">>,
       <<<<242, 47, 28, 100>>, "Game::MovementParams">>,
       <<<<229, 35, 229, 220>>, "Game::ComboSpecParams">>,
       <<<<168, 36, 169, 35>>, "Game::AttackChoice">>,
       <<<<237, 248, 12, 254>>, "Game::AIAttackFilter">>,
       <<<<206, 202, 150, 10>>, "Game::ResponseCurve">>,
       <<<<226, 55, 27, 5>>, "Game::StrategySet">>, <<<<252, 159, 70, 131>>, "Game::Strategy">>,
       <<<<132, 123, 56, 198>>, "Game::FitnessFunction">>,
       <<<<219, 57, 175, 115>>, "Game::FitnessFunctionElement">>,
       <<<<195, 209, 26, 187>>, "Game::PlanElement">>,
       <<<<233, 45, 199, 14>>, "Game::AIPerception">>, <<<<217, 119, 96, 214>>, "gf::Object">>,
       <<<<191, 199, 120, 141>>, "gf::LocalizedString">>,
       <<<<161, 40, 230, 26>>, "GF_TEMP::ScriptDB">>,
       <<<<202, 117, 194, 157>>, "GF_TEMP::HandyObject">>, <<<<155, 61, 219, 237>>, "gf::DB">>,
       <<<<217, 187, 63, 15>>, "anim::LookatData">>,
       <<<<163, 248, 98, 134>>, "render::SplineInstance">>,
       <<<<222, 238, 234, 152>>, "render::DirectionalEmitter">>,
       <<<<222, 236, 4, 141>>, "render::DiskEmitter">>,
       <<<<161, 190, 159, 20>>, "render::SphericalEmitter">>,
       <<<<255, 21, 106, 195>>, "render::PartSysFXEmitterDesc">>,
       <<<<137, 14, 211, 222>>, "render::LightInstance">>,
       <<<<253, 114, 71, 252>>, "render::FITLoader">>, <<<<171, 191, 68, 171>>, "render::FITex">>,
       <<<<169, 183, 145, 31>>, "render::TexBoxSimple">>,
       <<<<240, 213, 32, 135>>, "render::TexBoxALT">>,
       <<<<195, 62, 246, 30>>, "render::FontBoxALT">>, <<<<222, 249, 105, 96>>, "render::FontBox">>,
       <<<<135, 129, 11, 255>>, "render::TexBox">>,
       <<<<184, 66, 86, 120>>, "render::InterfaceBox">>,
       <<<<253, 125, 222, 140>>, "render::FontStringManager">>,
       <<<<196, 161, 121, 226>>, "render::FontString">>,
       <<<<239, 86, 46, 46>>, "render::FontStyle">>,
       <<<<248, 156, 81, 104>>, "render::FontManager">>,
       <<<<164, 229, 88, 50>>, "render::FontLoader">>,
       <<<<253, 2, 162, 120>>, "render::MaxCamera">>, <<<<203, 213, 16, 24>>, "render::Camera">>,
       <<<<197, 31, 27, 218>>, "render::BoxInstance">>,
       <<<<229, 226, 60, 201>>, "render::AuxiliaryObject">>,
       <<<<204, 235, 111, 250>>, "bin::Object">>, <<<<225, 59, 231, 28>>, "core::ObjCollection">> >>

\* hash_lookup: Some(name) is <<name>>, None is <<>>
hash_lookup(hash) ==
    IF \E i \in DOMAIN HashTable : HashTable[i][1] = hash
    THEN <<HashTable[CHOOSE i \in DOMAIN HashTable : HashTable[i][1] = hash][2]>>
    ELSE <<>>


-----------------------------------------------------------------------------
(* src/src/hash.rs                                                         *)

\* a ^ b of two numbers below 2^16
RECURSIVE Xor(_, _)
Xor(a, b) ==
    IF a = 0 THEN b
    ELSE IF b = 0 THEN a
    ELSE ((a + b) % 2) + 2 * Xor(a \div 2, b \div 2)

\* char::to_ascii_lowercase, of a character code
to_ascii_lowercase(c) == IF c >= 65 /\ c <= 90 THEN c + 32 ELSE c

\* hash, line 7-11, with a rotation by 4 bits: the test vectors must tell it
\* from HashStep
HashStep_by4(a, c) ==
    Let([hi \in {((Hi(a) * 16) % 65536) + (Lo(a) \div 4096)},
         lo \in {((Lo(a) * 16) % 65536) + (Hi(a) \div 4096)} |->
        Word(hi, Xor(lo, to_ascii_lowercase(c)))])

\* hash, line 7-11: one character.  a >> 27 is the top 5 bits, a << 5 drops
\* them and leaves the low 5 bits clear, so the | of the two is their sum
HashStep(a, c) ==
    Let([hi \in {((Hi(a) * 32) % 65536) + (Lo(a) \div 2048)},
         lo \in {((Lo(a) * 32) % 65536) + (Hi(a) \div 2048)} |->
        Word(hi, Xor(lo, to_ascii_lowercase(c)))])

\* hash, line 6-12: the loop over the characters lo..hi of the name, in their
\* order, from the value a; the range is walked in two halves to keep the
\* evaluation shallow
RECURSIVE HashFrom(_, _, _, _)
HashFrom(name, lo, hi, a) ==
    IF lo > hi THEN a
    ELSE IF lo = hi THEN HashStep(a, name[lo])
    ELSE Let([b \in {HashFrom(name, lo, (lo + hi) \div 2, a)} |->
             HashFrom(name, ((lo + hi) \div 2) + 1, hi, b)])

\* hash(name), of a name of ASCII characters (`hash` names a local elsewhere)
hash_str(name) == HashFrom(name, 1, Len(name), <<0, 0, 0, 0>>)

\* the characters of the class names of hash_lookup, in the order of HashTable
ClassChars ==
    << <<71, 97, 109, 101, 58, 58, 71, 97, 109, 101, 87, 111, 114, 108, 100>>,
       <<71, 97, 109, 101, 58, 58, 82, 111, 116, 97, 116, 105, 111, 110, 79, 98, 106, 101, 99, 116>>,
       <<71, 97, 109, 101, 58, 58, 70, 114, 111, 122, 101, 110, 79, 98, 106, 101, 99, 116>>,
       <<71, 97, 109, 101, 58, 58, 72, 105, 116, 80, 111, 105, 110, 116, 79, 98, 106, 101, 99, 116>>,
       <<71, 97, 109, 101, 58, 58, 68, 97, 110, 103, 101, 114, 79, 98, 106, 101, 99, 116>>,
       <<71, 97, 109, 101, 58, 58, 76, 111, 111, 112, 105, 110, 103, 67, 111, 109, 98, 105, 110, 97, 116, 105, 111, 110, 79, 98, 106, 101, 99, 116>>,
       <<71, 97, 109, 101, 58, 58, 69, 102, 102, 101, 99, 116, 79, 98, 106, 101, 99, 116>>,
       <<71, 97, 109, 101, 58, 58, 83, 111, 117, 110, 100, 79, 98, 106, 101, 99, 116>>,
       <<71, 97, 109, 101, 58, 58, 83, 111, 117, 110, 100, 66, 111, 120>>,
       <<71, 97, 109, 101, 58, 58, 70, 111, 114, 99, 101, 66, 111, 120>>,
       <<71, 97, 109, 101, 58, 58, 68, 101, 115, 116, 114, 117, 99, 116, 105, 98, 108, 101, 79, 98, 106, 101, 99, 116>>,
       <<71, 97, 109, 101, 58, 58, 82, 101, 112, 108, 97, 99, 101, 109, 101, 110, 116, 73, 116, 101, 109, 83, 112, 97, 119, 110, 101, 114>>,
       <<71, 97, 109, 101, 58, 58, 73, 116, 101, 109, 83, 112, 97, 119, 110, 101, 114>>,
       <<71, 97, 109, 101, 58, 58, 80, 108, 97, 121, 101, 114, 69, 102, 102, 101, 99, 116>>,
       <<71, 97, 109, 101, 58, 58, 69, 102, 102, 101, 99, 116, 83, 116, 97, 114, 116, 101, 114>>,
       <<71, 97, 109, 101, 58, 58, 79, 98, 106, 101, 99, 116, 73, 110, 105, 116, 105, 97, 108, 105, 122, 101, 114>>,
       <<71, 97, 109, 101, 58, 58, 80, 97, 100, 84, 114, 105, 103, 103, 101, 114>>,
       <<71, 97, 109, 101, 58, 58, 72, 105, 110, 116, 84, 114, 105, 103, 103, 101, 114>>,
       <<71, 97, 109, 101, 58, 58, 80, 108, 97, 121, 101, 114, 70, 108, 97, 103, 84, 114, 105, 103, 103, 101, 114>>,
       <<71, 97, 109, 101, 58, 58, 72, 111, 108, 100, 105, 110, 103, 73, 116, 101, 109, 84, 114, 105, 103, 103, 101, 114>>,
       <<71, 97, 109, 101, 58, 58, 73, 116, 101, 109, 84, 114, 105, 103, 103, 101, 114>>,
       <<71, 97, 109, 101, 58, 58, 84, 114, 105, 103, 103, 101, 114, 84, 101, 108, 101, 112, 111, 114, 116>>,
       <<71, 97, 109, 101, 58, 58, 84, 114, 105, 103, 103, 101, 114, 77, 111, 100, 101>>,
       <<71, 97, 109, 101, 58, 58, 84, 114, 105, 103, 103, 101, 114, 69, 118, 101, 110, 116, 83, 101, 113, 117, 101, 110, 99, 101>>,
       <<71, 97, 109, 101, 58, 58, 84, 114, 105, 103, 103, 101, 114>>,
       <<71, 97, 109, 101, 58, 58, 83, 112, 105, 116, 116, 101, 114>>,
       <<71, 97, 109, 101, 58, 58, 83, 112, 105, 116, 116, 101, 114, 75, 101, 121, 102, 114, 97, 109, 101>>,
       <<71, 97, 109, 101, 58, 58, 83, 104, 101, 108, 108, 67, 111, 110, 116, 114, 111, 108, 108, 101, 114>>,
       <<71, 97, 109, 101, 58, 58, 80, 97, 100, 83, 116, 97, 116, 117, 115>>,
       <<71, 97, 109, 101, 58, 58, 76, 111, 115, 101, 79, 110, 84, 105, 109, 101>>,
       <<71, 97, 109, 101, 58, 58, 87, 105, 110, 84, 104, 114, 101, 115, 104, 111, 108, 100>>,
       <<71, 97, 109, 101, 58, 58, 76, 111, 115, 101, 79, 110, 78, 111, 76, 105, 118, 101, 115>>,
       <<71, 97, 109, 101, 58, 58, 76, 111, 115, 101, 73, 102, 84, 101, 97, 109, 77, 101, 109, 98, 101, 114, 76, 111, 115, 101, 115>>,
       <<71, 97, 109, 101, 58, 58, 87, 105, 110, 79, 110, 67, 111, 117, 110, 116>>,
       <<71, 97, 109, 101, 58, 58, 87, 105, 110, 79, 110, 80, 111, 105, 110, 116, 115>>,
       <<71, 97, 109, 101, 58, 58, 65, 108, 119, 97, 121, 115, 72, 97, 118, 101, 80, 111, 119, 101, 114, 117, 112>>,
       <<71, 97, 109, 101, 58, 58, 65, 108, 119, 97, 121, 115, 72, 97, 118, 101, 87, 101, 97, 112, 111, 110>>,
       <<71, 97, 109, 101, 58, 58, 82, 101, 115, 112, 97, 119, 110, 65, 116, 84, 105, 109, 101, 115>>,
       <<71, 97, 109, 101, 58, 58, 82, 101, 115, 112, 97, 119, 110, 79, 110, 80, 108, 97, 121, 101, 114, 83, 108, 97, 109, 109, 101, 100>>,
       <<71, 97, 109, 101, 58, 58, 82, 101, 115, 112, 97, 119, 110, 73, 102, 80, 108, 97, 121, 101, 114, 68, 101, 97, 100>>,
       <<71, 97, 109, 101, 58, 58, 82, 101, 115, 112, 97, 119, 110, 65, 102, 116, 101, 114, 68, 101, 97, 116, 104>>,
       <<71, 97, 109, 101, 58, 58, 65, 73, 68, 105, 102, 102, 105, 99, 117, 108, 116, 121>>,
       <<71, 97, 109, 101, 58, 58, 65, 73, 82, 97, 109, 112, 68, 105, 102, 102, 105, 99, 117, 108, 116, 121, 66, 121, 82, 111, 117, 110, 100>>,
       <<71, 97, 109, 101, 58, 58, 65, 73, 82, 97, 109, 112, 68, 105, 102, 102, 105, 99, 117, 108, 116, 121, 79, 110, 76, 105, 118, 101, 115>>,
       <<71, 97, 109, 101, 58, 58, 65, 73, 72, 97, 116, 101, 70, 111, 114, 66, 101, 105, 110, 103, 72, 105, 116>>,
       <<71, 97, 109, 101, 58, 58, 65, 73, 72, 97, 116, 101, 80, 108, 97, 121, 101, 114>>,
       <<71, 97, 109, 101, 58, 58, 65, 73, 65, 108, 108, 83, 101, 116, 116, 105, 110, 103, 115>>,
       <<71, 97, 109, 101, 58, 58, 65, 73, 83, 101, 116, 116, 105, 110, 103, 115>>,
       <<71, 97, 109, 101, 58, 58, 65, 73, 72, 97, 116, 101, 82, 117, 108, 101>>,
       <<71, 97, 109, 101, 58, 58, 68, 105, 101, 79, 110, 84, 114, 105, 103, 103, 101, 114>>,
       <<71, 97, 109, 101, 58, 58, 68, 105, 101, 79, 110, 83, 108, 97, 109>>,
       <<71, 97, 109, 101, 58, 58, 82, 97, 99, 101, 83, 99, 111, 114, 105, 110, 103>>,
       <<71, 97, 109, 101, 58, 58, 83, 99, 111, 114, 101, 85, 110, 105, 113, 117, 101, 83, 112, 105, 116, 116, 101, 114, 115>>,
       <<71, 97, 109, 101, 58, 58, 67, 111, 117, 110, 116, 83, 99, 111, 114, 101, 84, 104, 114, 101, 115, 104, 111, 108, 100>>,
       <<71, 97, 109, 101, 58, 58, 80, 111, 105, 110, 116, 115, 70, 111, 114, 83, 116, 97, 116>>,
       <<71, 97, 109, 101, 58, 58, 80, 111, 105, 110, 116, 115, 70, 111, 114, 77, 111, 118, 101>>,
       <<71, 97, 109, 101, 58, 58, 80, 111, 105, 110, 116, 115, 70, 111, 114, 72, 111, 108, 100, 105, 110, 103>>,
       <<71, 97, 109, 101, 58, 58, 80, 111, 105, 110, 116, 115, 70, 111, 114, 84, 114, 105, 103, 103, 101, 114>>,
       <<71, 97, 109, 101, 58, 58, 80, 111, 105, 110, 116, 115, 70, 111, 114, 80, 105, 99, 107, 117, 112>>,
       <<71, 97, 109, 101, 58, 58, 80, 111, 105, 110, 116, 115, 70, 111, 114, 83, 108, 97, 109, 109, 105, 110, 103, 80, 108, 97, 121, 101, 114>>,
       <<71, 97, 109, 101, 58, 58, 80, 111, 105, 110, 116, 115, 70, 111, 114, 77, 117, 108, 116, 105, 115, 108, 97, 109>>,
       <<71, 97, 109, 101, 58, 58, 82, 101, 118, 101, 114, 115, 101, 83, 108, 97, 109, 83, 99, 111, 114, 105, 110, 103>>,
       <<71, 97, 109, 101, 58, 58, 83, 116, 97, 110, 100, 97, 114, 100, 83, 108, 97, 109, 83, 99, 111, 114, 105, 110, 103>>,
       <<71, 97, 109, 101, 58, 58, 72, 105, 116, 76, 111, 115, 101, 77, 97, 115, 115>>,
       <<71, 97, 109, 101, 58, 58, 83, 108, 97, 109, 68, 114, 111, 112, 67, 97, 110, 100, 121>>,
       <<71, 97, 109, 101, 58, 58, 72, 105, 116, 68, 114, 111, 112, 67, 97, 110, 100, 121>>,
       <<71, 97, 109, 101, 58, 58, 77, 111, 118, 101, 70, 105, 108, 116, 101, 114>>,
       <<71, 97, 109, 101, 58, 58, 72, 105, 116, 71, 97, 105, 110, 79, 118, 101, 114, 84, 105, 109, 101>>,
       <<71, 97, 109, 101, 58, 58, 72, 105, 116, 83, 108, 97, 109, 77, 101, 116, 101, 114, 70, 117, 108, 108>>,
       <<71, 97, 109, 101, 58, 58, 72, 105, 116, 68, 114, 97, 105, 110, 80, 111, 119, 101, 114>>,
       <<71, 97, 109, 101, 58, 58, 72, 105, 116, 71, 97, 105, 110, 80, 111, 119, 101, 114>>,
       <<71, 97, 109, 101, 58, 58, 83, 116, 97, 110, 100, 97, 114, 100, 72, 105, 116, 67, 97, 108, 99, 117, 108, 97, 116, 105, 111, 110, 115>>,
       <<71, 97, 109, 101, 58, 58, 87, 105, 110, 82, 117, 108, 101>>,
       <<71, 97, 109, 101, 58, 58, 83, 99, 111, 114, 101, 82, 117, 108, 101>>,
       <<71, 97, 109, 101, 58, 58, 82, 117, 108, 101, 115, 101, 116>>,
       <<71, 97, 109, 101, 58, 58, 82, 101, 110, 100, 101, 114, 83, 112, 97, 119, 110>>,
       <<71, 97, 109, 101, 58, 58, 67, 111, 108, 108, 105, 115, 105, 111, 110, 66, 111, 110, 101>>,
       <<71, 97, 109, 101, 58, 58, 82, 101, 110, 100, 101, 114, 66, 97, 115, 101>>,
       <<71, 97, 109, 101, 58, 58, 67, 111, 109, 112, 111, 117, 110, 100, 76, 111, 99, 107>>,
       <<71, 97, 109, 101, 58, 58, 68, 101, 98, 117, 103, 65, 108, 119, 97, 121, 115, 76, 111, 99, 107>>,
       <<71, 97, 109, 101, 58, 58, 65, 108, 108, 84, 114, 111, 112, 104, 121, 76, 111, 99, 107>>,
       <<71, 97, 109, 101, 58, 58, 65, 108, 108, 66, 97, 100, 103, 101, 115, 76, 111, 99, 107>>,
       <<71, 97, 109, 101, 58, 58, 67, 104, 97, 114, 97, 99, 116, 101, 114, 80, 108, 97, 121, 101, 100, 76, 111, 99, 107>>,
       <<71, 97, 109, 101, 58, 58, 83, 116, 97, 116, 76, 111, 99, 107>>,
       <<71, 97, 109, 101, 58, 58, 84, 105, 109, 101, 76, 111, 99, 107>>,
       <<71, 97, 109, 101, 58, 58, 83, 108, 97, 109, 67, 111, 117, 110, 116, 76, 111, 99, 107>>,
       <<71, 97, 109, 101, 58, 58, 76, 97, 100, 100, 101, 114, 67, 108, 101, 97, 114, 76, 111, 99, 107>>,
       <<71, 97, 109, 101, 58, 58, 80, 111, 105, 110, 116, 115, 67, 108, 101, 97, 114, 101, 100, 76, 111, 99, 107>>,
       <<71, 97, 109, 101, 58, 58, 67, 108, 117, 115, 116, 101, 114, 67, 108, 101, 97, 114, 101, 100, 76, 111, 99, 107>>,
       <<71, 97, 109, 101, 58, 58, 77, 111, 100, 101, 85, 110, 76, 111, 99, 107, 101, 100, 76, 111, 99, 107>>,
       <<71, 97, 109, 101, 58, 58, 76, 101, 118, 101, 108, 67, 108, 101, 97, 114, 101, 100, 76, 111, 99, 107>>,
       <<71, 97, 109, 101, 58, 58, 76, 111, 99, 107>>,
       <<71, 97, 109, 101, 58, 58, 80, 114, 101, 115, 99, 114, 105, 98, 101, 100, 77, 111, 118, 101, 109, 101, 110, 116>>,
       <<71, 97, 109, 101, 58, 58, 65, 112, 112, 108, 97, 117, 115, 101, 77, 111, 118, 101, 109, 101, 110, 116, 84, 121, 112, 101>>,
       <<71, 97, 109, 101, 58, 58, 80, 97, 110, 105, 99, 82, 117, 110, 77, 111, 118, 101, 109, 101, 110, 116, 84, 121, 112, 101>>,
       <<71, 97, 109, 101, 58, 58, 77, 97, 103, 110, 101, 116, 84, 111, 80, 111, 105, 110, 116, 77, 111, 118, 101, 109, 101, 110, 116, 84, 121, 112, 101>>,
       <<71, 97, 109, 101, 58, 58, 77, 97, 103, 110, 101, 116, 77, 111, 118, 101, 109, 101, 110, 116, 84, 121, 112, 101>>,
       <<71, 97, 109, 101, 58, 58, 70, 114, 111, 122, 101, 110, 77, 111, 118, 101, 109, 101, 110, 116, 84, 121, 112, 101>>,
       <<71, 97, 109, 101, 58, 58, 80, 105, 110, 97, 116, 97, 77, 111, 118, 101, 109, 101, 110, 116, 84, 121, 112, 101>>,
       <<71, 97, 109, 101, 58, 58, 65, 116, 116, 97, 99, 104, 84, 111, 72, 97, 118, 111, 107, 79, 98, 106, 77, 111, 118, 101, 109, 101, 110, 116, 84, 121, 112, 101>>,
       <<71, 97, 109, 101, 58, 58, 71, 114, 97, 118, 105, 116, 121, 87, 97, 110, 100, 77, 111, 118, 101, 109, 101, 110, 116, 84, 121, 112, 101>>,
       <<71, 97, 109, 101, 58, 58, 80, 114, 101, 115, 99, 114, 105, 98, 101, 100, 77, 111, 118, 101, 109, 101, 110, 116, 84, 121, 112, 101>>,
       <<71, 97, 109, 101, 58, 58, 80, 104, 121, 115, 105, 99, 115, 70, 105, 103, 104, 116, 105, 110, 103>>,
       <<71, 97, 109, 101, 58, 58, 67, 111, 109, 98, 111, 83, 112, 101, 99>>,
       <<71, 97, 109, 101, 58, 58, 66, 117, 102, 102, 101, 114, 101, 100, 77, 111, 118, 101>>,
       <<71, 97, 109, 101, 58, 58, 65, 116, 116, 97, 99, 107, 77, 111, 118, 101>>,
       <<71, 97, 109, 101, 58, 58, 65, 116, 116, 97, 99, 107, 77, 111, 118, 101, 84, 121, 112, 101>>,
       <<71, 97, 109, 101, 58, 58, 65, 116, 116, 97, 99, 107, 77, 111, 118, 101, 82, 101, 103, 105, 111, 110>>,
       <<71, 97, 109, 101, 58, 58, 80, 104, 121, 115, 105, 99, 115, 77, 111, 100, 101, 108, 83, 105, 109, 112, 108, 101, 80, 101, 100>>,
       <<71, 97, 109, 101, 58, 58, 67, 111, 110, 116, 97, 99, 116, 83, 116, 97, 116, 101, 77, 111, 100, 101, 108, 67, 111, 110, 115, 116, 114, 97, 105, 110, 101, 100>>,
       <<71, 97, 109, 101, 58, 58, 67, 111, 110, 116, 97, 99, 116, 83, 116, 97, 116, 101, 77, 111, 100, 101, 108, 65, 105, 114, 98, 111, 114, 110>>,
       <<71, 97, 109, 101, 58, 58, 67, 111, 110, 116, 97, 99, 116, 83, 116, 97, 116, 101, 77, 111, 100, 101, 108, 71, 114, 111, 117, 110, 100>>,
       <<71, 97, 109, 101, 58, 58, 67, 111, 110, 116, 97, 99, 116, 83, 116, 97, 116, 101, 77, 111, 100, 101, 108, 66, 97, 115, 101>>,
       <<71, 97, 109, 101, 58, 58, 80, 104, 121, 115, 105, 99, 115, 66, 97, 115, 101>>,
       <<71, 97, 109, 101, 58, 58, 112, 101, 114, 108, 105, 110, 95, 110, 111, 105, 115, 101, 95, 99, 104, 97, 110, 103, 105, 110, 103>>,
       <<71, 97, 109, 101, 58, 58, 112, 101, 114, 108, 105, 110, 95, 110, 111, 105, 115, 101, 51, 100>>,
       <<71, 97, 109, 101, 58, 58, 112, 101, 114, 108, 105, 110, 95, 110, 111, 105, 115, 101>>,
       <<71, 97, 109, 101, 58, 58, 112, 101, 114, 108, 105, 110, 95, 110, 111, 105, 115, 101, 95, 112, 97, 114, 97, 109, 115>>,
       <<71, 97, 109, 101, 58, 58, 76, 97, 100, 100, 101, 114, 83, 101, 116, 117, 112>>,
       <<71, 97, 109, 101, 58, 58, 67, 105, 110, 101, 109, 97, 116, 105, 99, 77, 111, 100, 101>>,
       <<71, 97, 109, 101, 58, 58, 77, 111, 100, 101>>,
       <<71, 97, 109, 101, 58, 58, 80, 114, 101, 108, 111, 97, 100, 68, 97, 116, 97>>,
       <<71, 97, 109, 101, 58, 58, 76, 101, 118, 101, 108>>,
       <<71, 97, 109, 101, 58, 58, 76, 101, 118, 101, 108, 77, 101, 115, 104>>,
       <<71, 97, 109, 101, 58, 58, 78, 111, 100, 101, 83, 101, 116, 85, 112, 51, 68>>,
       <<71, 97, 109, 101, 58, 58, 78, 111, 100, 101, 83, 101, 116, 85, 112, 50, 68, 87, 105, 116, 104, 84, 97, 99, 107, 79, 110>>,
       <<71, 97, 109, 101, 58, 58, 78, 111, 100, 101, 83, 101, 116, 85, 112, 50, 68>>,
       <<71, 97, 109, 101, 58, 58, 78, 111, 100, 101, 83, 101, 116, 85, 112, 49, 68>>,
       <<71, 97, 109, 101, 58, 58, 78, 111, 100, 101, 83, 101, 116, 85, 112>>,
       <<71, 97, 109, 101, 58, 58, 83, 101, 116, 86, 97, 108, 117, 101, 80, 97, 105, 114, 83, 116, 114, 105, 110, 103>>,
       <<71, 97, 109, 101, 58, 58, 83, 101, 116, 86, 97, 108, 117, 101, 80, 97, 105, 114, 79, 98, 106, 101, 99, 116>>,
       <<71, 97, 109, 101, 58, 58, 83, 101, 116, 86, 97, 108, 117, 101, 80, 97, 105, 114>>,
       <<71, 97, 109, 101, 58, 58, 82, 101, 102, 79, 98, 106, 78, 97, 118, 78, 111, 100, 101>>,
       <<71, 97, 109, 101, 58, 58, 72, 85, 68, 65, 73, 79, 112, 116, 105, 111, 110, 115, 78, 97, 118, 78, 111, 100, 101>>,
       <<71, 97, 109, 101, 58, 58, 83, 101, 116, 117, 112, 79, 112, 116, 105, 111, 110, 115, 78, 97, 118, 78, 111, 100, 101>>,
       <<71, 97, 109, 101, 58, 58, 77, 101, 108, 101, 101, 79, 112, 116, 105, 111, 110, 115, 78, 97, 118, 78, 111, 100, 101>>,
       <<71, 97, 109, 101, 58, 58, 70, 117, 110, 99, 116, 105, 111, 110, 97, 108, 105, 116, 121, 78, 97, 118, 78, 111, 100, 101>>,
       <<71, 97, 109, 101, 58, 58, 73, 110, 116, 101, 114, 102, 97, 99, 101, 78, 97, 118, 78, 111, 100, 101>>,
       <<71, 97, 109, 101, 58, 58, 73, 110, 116, 101, 114, 102, 97, 99, 101, 78, 97, 118, 78, 111, 100, 101, 83, 116, 117, 98>>,
       <<71, 97, 109, 101, 58, 58, 78, 111, 100, 101, 65, 102, 102, 101, 99, 116, 71, 114, 111, 117, 112>>,
       <<71, 97, 109, 101, 58, 58, 73, 110, 116, 101, 114, 102, 97, 99, 101, 76, 97, 121, 111, 117, 116>>,
       <<71, 97, 109, 101, 58, 58, 72, 117, 100, 77, 111, 100, 101, 79, 112, 116, 105, 111, 110, 115>>,
       <<71, 97, 109, 101, 58, 58, 83, 104, 101, 108, 108, 67, 104, 97, 114, 97, 99, 116, 101, 114, 83, 101, 108, 101, 99, 116, 77, 101, 110, 117>>,
       <<71, 97, 109, 101, 58, 58, 72, 85, 68, 83, 117, 109, 109, 97, 114, 121, 67, 111, 110, 116, 114, 111, 108>>,
       <<71, 97, 109, 101, 58, 58, 77, 111, 100, 101, 108, 83, 116, 97, 116, 117, 115, 73, 110, 100, 105, 99, 97, 116, 111, 114>>,
       <<71, 97, 109, 101, 58, 58, 76, 111, 99, 107, 101, 100, 76, 105, 115, 116, 101, 110, 101, 114, 68, 105, 115, 112, 108, 97, 121>>,
       <<71, 97, 109, 101, 58, 58, 73, 110, 87, 111, 114, 108, 100, 77, 101, 110, 117, 87, 114, 97, 112>>,
       <<71, 97, 109, 101, 58, 58, 77, 111, 100, 101, 67, 111, 109, 112, 108, 101, 116, 105, 111, 110, 68, 105, 115, 112, 108, 97, 121>>,
       <<71, 97, 109, 101, 58, 58, 78, 97, 118, 105, 103, 97, 116, 105, 111, 110, 76, 111, 99, 107>>,
       <<71, 97, 109, 101, 58, 58, 66, 111, 110, 117, 115, 68, 105, 115, 112, 108, 97, 121, 83, 104, 101, 108, 108, 77, 101, 110, 117>>,
       <<71, 97, 109, 101, 58, 58, 77, 111, 100, 101, 67, 108, 117, 115, 116, 101, 114, 83, 104, 101, 108, 108, 77, 101, 110, 117>>,
       <<71, 97, 109, 101, 58, 58, 78, 97, 118, 78, 111, 100, 101, 84, 114, 101, 101>>,
       <<71, 97, 109, 101, 58, 58, 73, 110, 116, 101, 114, 102, 97, 99, 101, 83, 99, 114, 111, 108, 108, 77, 101, 110, 117>>,
       <<71, 97, 109, 101, 58, 58, 73, 110, 116, 101, 114, 102, 97, 99, 101, 77, 101, 110, 117>>,
       <<71, 97, 109, 101, 58, 58, 83, 105, 109, 112, 108, 101, 75, 101, 121, 77, 97, 112, 77, 101, 110, 117>>,
       <<71, 97, 109, 101, 58, 58, 73, 110, 116, 101, 114, 102, 97, 99, 101, 77, 101, 110, 117, 83, 116, 117, 98>>,
       <<71, 97, 109, 101, 58, 58, 83, 104, 101, 108, 108, 85, 110, 108, 111, 99, 107, 97, 98, 108, 101, 68, 105, 115, 112, 108, 97, 121>>,
       <<71, 97, 109, 101, 58, 58, 76, 97, 100, 100, 101, 114, 68, 105, 115, 112, 108, 97, 121>>,
       <<71, 97, 109, 101, 58, 58, 84, 101, 97, 109, 70, 108, 97, 103, 68, 105, 115, 112, 108, 97, 121>>,
       <<71, 97, 109, 101, 58, 58, 83, 104, 101, 108, 108, 67, 104, 97, 114, 97, 99, 116, 101, 114, 77, 111, 100, 101, 108, 68, 105, 115, 112, 108, 97, 121>>,
       <<71, 97, 109, 101, 58, 58, 77, 111, 100, 101, 108, 68, 105, 115, 112, 108, 97, 121>>,
       <<71, 97, 109, 101, 58, 58, 73, 110, 87, 111, 114, 108, 100, 77, 111, 100, 101, 108, 68, 105, 115, 112, 108, 97, 121>>,
       <<71, 97, 109, 101, 58, 58, 73, 110, 116, 101, 114, 102, 97, 99, 101, 77, 111, 100, 101, 108>>,
       <<71, 97, 109, 101, 58, 58, 72, 117, 100, 77, 111, 100, 101, 84, 105, 109, 101, 114>>,
       <<71, 97, 109, 101, 58, 58, 72, 117, 100, 87, 105, 110, 80, 111, 105, 110, 116, 68, 105, 115, 112, 108, 97, 121>>,
       <<71, 97, 109, 101, 58, 58, 72, 117, 100, 83, 105, 109, 112, 108, 101, 77, 111, 100, 101, 73, 110, 102, 111, 68, 105, 115, 112, 108, 97, 121>>,
       <<71, 97, 109, 101, 58, 58, 83, 104, 101, 108, 108, 77, 111, 100, 101, 73, 110, 102, 111, 68, 105, 115, 112, 108, 97, 121>>,
       <<71, 97, 109, 101, 58, 58, 72, 117, 100, 83, 105, 109, 112, 108, 101, 80, 114, 101, 71, 97, 109, 101, 68, 105, 115, 112, 108, 97, 121>>,
       <<71, 97, 109, 101, 58, 58, 72, 117, 100, 87, 105, 110, 110, 105, 110, 103, 83, 111, 117, 110, 100, 80, 108, 97, 121, 101, 114>>,
       <<71, 97, 109, 101, 58, 58, 83, 116, 114, 105, 110, 103, 70, 108, 97, 115, 104, 101, 114>>,
       <<71, 97, 109, 101, 58, 58, 72, 117, 100, 80, 114, 101, 103, 97, 109, 101, 68, 105, 115, 112, 108, 97, 121>>,
       <<71, 97, 109, 101, 58, 58, 72, 117, 100, 84, 101, 97, 109, 73, 110, 102, 111, 68, 105, 115, 112, 108, 97, 121>>,
       <<71, 97, 109, 101, 58, 58, 72, 117, 100, 67, 104, 97, 114, 73, 110, 102, 111, 68, 105, 115, 112, 108, 97, 121>>,
       <<71, 97, 109, 101, 58, 58, 72, 111, 108, 100, 75, 101, 121, 68, 105, 115, 112, 108, 97, 121>>,
       <<71, 97, 109, 101, 58, 58, 72, 117, 100, 77, 101, 100, 97, 108, 68, 105, 115, 112, 108, 97, 121>>,
       <<71, 97, 109, 101, 58, 58, 73, 116, 101, 109, 83, 99, 114, 111, 108, 108>>,
       <<71, 97, 109, 101, 58, 58, 71, 97, 109, 101, 70, 117, 110, 99, 116, 105, 111, 110, 97, 108, 73, 110, 102, 111, 73, 116, 101, 109>>,
       <<71, 97, 109, 101, 58, 58, 71, 97, 109, 101, 80, 114, 111, 103, 114, 101, 115, 115, 73, 110, 102, 111, 73, 116, 101, 109>>,
       <<71, 97, 109, 101, 58, 58, 72, 117, 100, 67, 104, 97, 114, 73, 110, 102, 111, 73, 116, 101, 109>>,
       <<71, 97, 109, 101, 58, 58, 80, 97, 100, 85, 110, 112, 108, 117, 103, 77, 101, 115, 115, 97, 103, 101>>,
       <<71, 97, 109, 101, 58, 58, 72, 117, 100, 83, 108, 97, 109, 85, 112, 100, 97, 116, 101, 114>>,
       <<71, 97, 109, 101, 58, 58, 72, 117, 100, 67, 104, 97, 114, 97, 99, 116, 101, 114, 68, 105, 115, 112, 108, 97, 121>>,
       <<71, 97, 109, 101, 58, 58, 73, 110, 116, 101, 114, 102, 97, 99, 101, 68, 105, 115, 112, 108, 97, 121, 79, 98, 106, 101, 99, 116>>,
       <<71, 97, 109, 101, 58, 58, 72, 117, 100, 67, 105, 110, 101, 109, 97, 116, 105, 99>>,
       <<71, 97, 109, 101, 58, 58, 72, 117, 100, 77, 101, 108, 101, 101>>,
       <<71, 97, 109, 101, 58, 58, 72, 117, 100>>,
       <<71, 97, 109, 101, 58, 58, 76, 111, 97, 100, 105, 110, 103, 83, 99, 114, 101, 101, 110>>,
       <<71, 97, 109, 101, 58, 58, 77, 111, 100, 101, 67, 108, 117, 115, 116, 101, 114>>,
       <<71, 97, 109, 101, 58, 58, 77, 111, 100, 101, 76, 111, 97, 100, 101, 114>>,
       <<71, 97, 109, 101, 58, 58, 80, 108, 97, 121, 101, 114, 69, 110, 116, 105, 116, 121>>,
       <<71, 97, 109, 101, 58, 58, 76, 101, 118, 101, 108, 77, 97, 120, 67, 97, 109, 101, 114, 97>>,
       <<71, 97, 109, 101, 58, 58, 76, 101, 118, 101, 108, 67, 97, 109, 101, 114, 97>>,
       <<71, 97, 109, 101, 58, 58, 71, 108, 111, 98, 97, 108, 77, 97, 99, 104, 105, 110, 101>>,
       <<71, 97, 109, 101, 58, 58, 69, 118, 101, 110, 116, 80, 108, 97, 121, 69, 118, 101, 110, 116, 83, 101, 113, 117, 101, 110, 99, 101>>,
       <<71, 97, 109, 101, 58, 58, 69, 118, 101, 110, 116, 73, 116, 101, 109, 83, 101, 116, 83, 116, 97, 116, 101>>,
       <<71, 97, 109, 101, 58, 58, 69, 118, 101, 110, 116, 80, 114, 111, 112, 83, 101, 116, 80, 111, 115, 105, 116, 105, 111, 110, 79, 114, 105, 101, 110, 116, 97, 116, 105, 111, 110>>,
       <<71, 97, 109, 101, 58, 58, 69, 118, 101, 110, 116, 77, 117, 108, 116, 105, 69, 102, 102, 101, 99, 116>>,
       <<71, 97, 109, 101, 58, 58, 69, 118, 101, 110, 116, 69, 102, 102, 101, 99, 116, 79, 110, 77, 97, 110, 121, 79, 98, 106, 101, 99, 116, 115>>,
       <<71, 97, 109, 101, 58, 58, 69, 118, 101, 110, 116, 69, 102, 102, 101, 99, 116>>,
       <<71, 97, 109, 101, 58, 58, 69, 118, 101, 110, 116, 67, 97, 109, 101, 114, 97, 70, 111, 118>>,
       <<71, 97, 109, 101, 58, 58, 69, 118, 101, 110, 116, 67, 97, 109, 101, 114, 97, 76, 111, 111, 107, 65, 116, 80, 111, 105, 110, 116>>,
       <<71, 97, 109, 101, 58, 58, 69, 118, 101, 110, 116, 67, 97, 109, 101, 114, 97, 76, 111, 111, 107, 65, 116>>,
       <<71, 97, 109, 101, 58, 58, 69, 118, 101, 110, 116, 67, 97, 109, 101, 114, 97, 80, 111, 115, 105, 116, 105, 111, 110, 80, 111, 105, 110, 116>>,
       <<71, 97, 109, 101, 58, 58, 69, 118, 101, 110, 116, 67, 97, 109, 101, 114, 97, 80, 111, 115, 105, 116, 105, 111, 110>>,
       <<71, 97, 109, 101, 58, 58, 69, 118, 101, 110, 116, 67, 97, 109, 101, 114, 97, 70, 105, 110, 105, 115, 104>>,
       <<71, 97, 109, 101, 58, 58, 69, 118, 101, 110, 116, 67, 97, 109, 101, 114, 97, 77, 97, 120, 67, 97, 109, 84, 97, 114, 103, 101, 116>>,
       <<71, 97, 109, 101, 58, 58, 69, 118, 101, 110, 116, 67, 97, 109, 101, 114, 97, 77, 97, 120, 67, 97, 109, 80, 111, 115, 105, 116, 105, 111, 110>>,
       <<71, 97, 109, 101, 58, 58, 69, 118, 101, 110, 116, 67, 97, 109, 101, 114, 97, 77, 97, 120, 67, 97, 109>>,
       <<71, 97, 109, 101, 58, 58, 69, 118, 101, 110, 116, 69, 110, 116, 105, 116, 121, 81, 117, 105, 99, 107, 83, 101, 116, 80, 111, 115, 105, 116, 105, 111, 110, 79, 114, 105, 101, 110, 116>>,
       <<71, 97, 109, 101, 58, 58, 69, 118, 101, 110, 116, 69, 110, 116, 105, 116, 121, 84, 101, 108, 101, 112, 111, 114, 116>>,
       <<71, 97, 109, 101, 58, 58, 69, 118, 101, 110, 116, 69, 110, 116, 105, 116, 121, 83, 101, 116, 79, 114, 105, 101, 110, 116>>,
       <<71, 97, 109, 101, 58, 58, 69, 118, 101, 110, 116, 69, 110, 116, 105, 116, 121, 83, 101, 116, 80, 111, 115, 105, 116, 105, 111, 110>>,
       <<71, 97, 109, 101, 58, 58, 69, 118, 101, 110, 116, 69, 110, 116, 105, 116, 121, 67, 108, 101, 97, 114, 83, 116, 97, 116, 101>>,
       <<71, 97, 109, 101, 58, 58, 69, 118, 101, 110, 116, 69, 110, 116, 105, 116, 121, 83, 101, 116, 83, 116, 97, 116, 101>>,
       <<71, 97, 109, 101, 58, 58, 69, 118, 101, 110, 116, 69, 110, 116, 105, 116, 121, 80, 114, 111, 112, 68, 114, 111, 112>>,
       <<71, 97, 109, 101, 58, 58, 69, 118, 101, 110, 116, 69, 110, 116, 105, 116, 121, 80, 114, 111, 112, 71, 101, 116>>,
       <<71, 97, 109, 101, 58, 58, 69, 118, 101, 110, 116, 67, 104, 97, 110, 103, 101, 68, 101, 115, 116, 114, 117, 99, 116, 105, 98, 108, 101, 79, 98, 106, 101, 99, 116, 82, 101, 115, 101, 116>>,
       <<71, 97, 109, 101, 58, 58, 69, 118, 101, 110, 116, 72, 97, 118, 111, 107, 79, 98, 106, 101, 99, 116, 115, 82, 101, 115, 101, 116>>,
       <<71, 97, 109, 101, 58, 58, 69, 118, 101, 110, 116, 72, 97, 118, 111, 107, 79, 98, 106, 101, 99, 116, 115, 85, 110, 104, 105, 100, 101>>,
       <<71, 97, 109, 101, 58, 58, 69, 118, 101, 110, 116, 72, 97, 118, 111, 107, 79, 98, 106, 101, 99, 116, 115, 72, 105, 100, 101>>,
       <<71, 97, 109, 101, 58, 58, 69, 118, 101, 110, 116, 69, 110, 97, 98, 108, 101, 73, 116, 101, 109, 84, 114, 105, 103, 103, 101, 114, 115>>,
       <<71, 97, 109, 101, 58, 58, 69, 118, 101, 110, 116, 68, 105, 115, 97, 98, 108, 101, 73, 116, 101, 109, 84, 114, 105, 103, 103, 101, 114, 115>>,
       <<71, 97, 109, 101, 58, 58, 69, 118, 101, 110, 116, 69, 110, 97, 98, 108, 101, 84, 114, 105, 103, 103, 101, 114, 115>>,
       <<71, 97, 109, 101, 58, 58, 69, 118, 101, 110, 116, 68, 105, 115, 97, 98, 108, 101, 84, 114, 105, 103, 103, 101, 114, 115>>,
       <<71, 97, 109, 101, 58, 58, 69, 118, 101, 110, 116, 69, 110, 97, 98, 108, 101, 70, 111, 114, 99, 101, 66, 111, 120, 101, 115>>,
       <<71, 97, 109, 101, 58, 58, 69, 118, 101, 110, 116, 68, 105, 115, 97, 98, 108, 101, 70, 111, 114, 99, 101, 66, 111, 120, 101, 115>>,
       <<71, 97, 109, 101, 58, 58, 69, 118, 101, 110, 116, 79, 98, 106, 101, 99, 116, 115, 65, 110, 105, 109, 97, 116, 101, 85, 110, 112, 97, 117, 115, 101>>,
       <<71, 97, 109, 101, 58, 58, 69, 118, 101, 110, 116, 79, 98, 106, 101, 99, 116, 115, 65, 110, 105, 109, 97, 116, 101, 83, 116, 111, 112>>,
       <<71, 97, 109, 101, 58, 58, 69, 118, 101, 110, 116, 79, 98, 106, 101, 99, 116, 115, 65, 110, 105, 109, 97, 116, 101, 80, 97, 117, 115, 101>>,
       <<71, 97, 109, 101, 58, 58, 69, 118, 101, 110, 116, 79, 98, 106, 101, 99, 116, 115, 65, 110, 105, 109, 97, 116, 101>>,
       <<71, 97, 109, 101, 58, 58, 69, 118, 101, 110, 116, 79, 98, 106, 101, 99, 116, 115, 85, 110, 104, 105, 100, 101>>,
       <<71, 97, 109, 101, 58, 58, 69, 118, 101, 110, 116, 79, 98, 106, 101, 99, 116, 115, 72, 105, 100, 101>>,
       <<71, 97, 109, 101, 58, 58, 69, 118, 101, 110, 116, 79, 98, 106, 101, 99, 116, 115, 65, 108, 108>>,
       <<71, 97, 109, 101, 58, 58, 69, 118, 101, 110, 116, 80, 108, 97, 121, 87, 105, 110, 83, 111, 117, 110, 100>>,
       <<71, 97, 109, 101, 58, 58, 69, 118, 101, 110, 116, 80, 108, 97, 121, 78, 97, 109, 101, 83, 111, 117, 110, 100>>,
       <<71, 97, 109, 101, 58, 58, 69, 118, 101, 110, 116, 83, 116, 111, 112, 83, 111, 117, 110, 100>>,
       <<71, 97, 109, 101, 58, 58, 69, 118, 101, 110, 116, 80, 108, 97, 121, 83, 111, 117, 110, 100>>,
       <<71, 97, 109, 101, 58, 58, 69, 118, 101, 110, 116, 80, 114, 105, 110, 116, 79, 110, 83, 99, 114, 101, 101, 110>>,
       <<71, 97, 109, 101, 58, 58, 69, 118, 101, 110, 116, 82, 101, 115, 101, 116, 72, 105, 116, 80, 111, 105, 110, 116, 79, 98, 106, 101, 99, 116>>,
       <<71, 97, 109, 101, 58, 58, 69, 118, 101, 110, 116, 68, 105, 115, 97, 98, 108, 101, 69, 118, 101, 110, 116, 83, 112, 97, 119, 110, 73, 116, 101, 109, 115>>,
       <<71, 97, 109, 101, 58, 58, 69, 118, 101, 110, 116, 83, 101, 116, 68, 101, 102, 108, 101, 99, 116, 105, 111, 110, 73, 110, 99, 114, 101, 97, 115, 101>>,
       <<71, 97, 109, 101, 58, 58, 69, 118, 101, 110, 116, 67, 104, 97, 110, 103, 101, 84, 97, 114, 103, 101, 116, 84, 121, 112, 101>>,
       <<71, 97, 109, 101, 58, 58, 69, 118, 101, 110, 116, 65, 100, 100, 84, 97, 114, 103, 101, 116, 79, 98, 106, 101, 99, 116>>,
       <<71, 97, 109, 101, 58, 58, 69, 118, 101, 110, 116, 80, 114, 105, 110, 116, 68, 101, 98, 117, 103>>,
       <<71, 97, 109, 101, 58, 58, 69, 118, 101, 110, 116, 80, 108, 97, 121, 101, 114, 67, 111, 110, 116, 114, 111, 108>>,
       <<71, 97, 109, 101, 58, 58, 69, 118, 101, 110, 116, 76, 105, 103, 104, 116>>,
       <<71, 97, 109, 101, 58, 58, 69, 118, 101, 110, 116, 70, 111, 110, 116, 84, 101, 120>>,
       <<71, 97, 109, 101, 58, 58, 70, 111, 110, 116, 84, 101, 120, 84, 101, 109, 112, 108, 97, 116, 101, 70, 111, 114, 69, 118, 101, 110, 116>>,
       <<71, 97, 109, 101, 58, 58, 69, 118, 101, 110, 116, 84, 101, 120, 66, 111, 120>>,
       <<71, 97, 109, 101, 58, 58, 69, 118, 101, 110, 116, 70, 111, 110, 116, 66, 111, 120, 65, 76, 84>>,
       <<71, 97, 109, 101, 58, 58, 69, 118, 101, 110, 116, 70, 111, 110, 116, 66, 111, 120>>,
       <<71, 97, 109, 101, 58, 58, 69, 118, 101, 110, 116, 70, 97, 100, 101>>,
       <<71, 97, 109, 101, 58, 58, 69, 118, 101, 110, 116, 80, 108, 97, 121, 77, 111, 118, 105, 101>>,
       <<71, 97, 109, 101, 58, 58, 69, 118, 101, 110, 116, 69, 110, 97, 98, 108, 101, 68, 105, 115, 97, 98, 108, 101, 73, 116, 101, 109, 83, 112, 97, 119, 110, 101, 114>>,
       <<71, 97, 109, 101, 58, 58, 69, 118, 101, 110, 116, 77, 111, 100, 105, 102, 121, 80, 111, 119, 101, 114>>,
       <<71, 97, 109, 101, 58, 58, 69, 118, 101, 110, 116, 75, 105, 108, 108, 80, 108, 97, 121, 101, 114>>,
       <<71, 97, 109, 101, 58, 58, 69, 118, 101, 110, 116, 83, 112, 97, 119, 110, 73, 116, 101, 109, 65, 116, 80, 108, 97, 121, 101, 114>>,
       <<71, 97, 109, 101, 58, 58, 69, 118, 101, 110, 116, 83, 112, 97, 119, 110, 73, 116, 101, 109>>,
       <<71, 97, 109, 101, 58, 58, 69, 118, 101, 110, 116, 65, 73, 65, 108, 108, 83, 101, 116, 116, 105, 110, 103, 115>>,
       <<71, 97, 109, 101, 58, 58, 69, 118, 101, 110, 116, 65, 73, 83, 101, 116, 116, 105, 110, 103, 115>>,
       <<71, 97, 109, 101, 58, 58, 69, 118, 101, 110, 116, 65, 73, 72, 97, 116, 101>>,
       <<71, 97, 109, 101, 58, 58, 69, 118, 101, 110, 116>>,
       <<71, 97, 109, 101, 58, 58, 69, 118, 101, 110, 116, 83, 101, 113, 117, 101, 110, 99, 101>>,
       <<71, 97, 109, 101, 58, 58, 69, 110, 116, 105, 116, 121>>,
       <<71, 97, 109, 101, 58, 58, 69, 102, 102, 101, 99, 116, 83, 116, 114, 105, 110, 103, 82, 101, 102, 101, 114, 101, 110, 99, 101>>,
       <<71, 97, 109, 101, 58, 58, 69, 102, 102, 101, 99, 116, 77, 97, 110, 97, 103, 101, 114>>,
       <<71, 97, 109, 101, 58, 58, 68, 121, 110, 97, 109, 105, 99, 68, 97, 116, 97, 84, 105, 109, 101, 100, 69, 102, 102, 101, 99, 116, 115>>,
       <<71, 97, 109, 101, 58, 58, 69, 102, 102, 101, 99, 116, 73, 68>>,
       <<71, 97, 109, 101, 58, 58, 68, 121, 110, 97, 109, 105, 99, 82, 117, 109, 98, 108, 101, 69, 102, 102, 101, 99, 116, 68, 97, 116, 97>>,
       <<71, 97, 109, 101, 58, 58, 69, 102, 102, 101, 99, 116, 82, 117, 109, 98, 108, 101, 84, 121, 112, 101>>,
       <<71, 97, 109, 101, 58, 58, 68, 121, 110, 97, 109, 105, 99, 71, 108, 111, 119, 69, 102, 102, 101, 99, 116, 68, 97, 116, 97>>,
       <<71, 97, 109, 101, 58, 58, 69, 102, 102, 101, 99, 116, 71, 108, 111, 119, 84, 121, 112, 101>>,
       <<71, 97, 109, 101, 58, 58, 68, 121, 110, 97, 109, 105, 99, 80, 97, 114, 116, 105, 99, 108, 101, 80, 97, 114, 97, 109, 115>>,
       <<71, 97, 109, 101, 58, 58, 69, 109, 105, 116, 116, 101, 114, 84, 121, 112, 101>>,
       <<71, 97, 109, 101, 58, 58, 84, 114, 97, 105, 108>>,
       <<71, 97, 109, 101, 58, 58, 84, 114, 97, 105, 108, 84, 121, 112, 101, 66>>,
       <<71, 97, 109, 101, 58, 58, 84, 114, 97, 105, 108, 85, 110, 105, 118, 101, 114, 115, 97, 108, 80, 97, 114, 97, 109, 101, 116, 101, 114, 115>>,
       <<71, 97, 109, 101, 58, 58, 84, 114, 97, 105, 108, 66, 111, 110, 101, 80, 97, 114, 97, 109, 101, 116, 101, 114, 115>>,
       <<71, 97, 109, 101, 58, 58, 84, 114, 97, 105, 108, 84, 121, 112, 101>>,
       <<71, 97, 109, 101, 58, 58, 68, 121, 110, 97, 109, 105, 99, 67, 97, 109, 101, 114, 97, 83, 104, 97, 107, 101, 69, 102, 102, 101, 99, 116, 68, 97, 116, 97>>,
       <<71, 97, 109, 101, 58, 58, 69, 102, 102, 101, 99, 116, 67, 97, 109, 83, 104, 97, 107, 101, 84, 121, 112, 101>>,
       <<71, 97, 109, 101, 58, 58, 68, 121, 110, 97, 109, 105, 99, 76, 105, 103, 104, 116, 69, 102, 102, 101, 99, 116, 68, 97, 116, 97>>,
       <<71, 97, 109, 101, 58, 58, 69, 102, 102, 101, 99, 116, 76, 105, 103, 104, 116, 84, 121, 112, 101>>,
       <<71, 97, 109, 101, 58, 58, 68, 121, 110, 97, 109, 105, 99, 67, 111, 108, 111, 114, 69, 102, 102, 101, 99, 116, 68, 97, 116, 97>>,
       <<71, 97, 109, 101, 58, 58, 69, 102, 102, 101, 99, 116, 70, 97, 100, 101, 79, 112, 97, 99, 105, 116, 121>>,
       <<71, 97, 109, 101, 58, 58, 69, 102, 102, 101, 99, 116, 67, 111, 108, 111, 114, 84, 121, 112, 101>>,
       <<71, 97, 109, 101, 58, 58, 68, 121, 110, 97, 109, 105, 99, 83, 111, 117, 110, 100, 69, 102, 102, 101, 99, 116, 68, 97, 116, 97>>,
       <<71, 97, 109, 101, 58, 58, 69, 102, 102, 101, 99, 116, 83, 111, 117, 110, 100>>,
       <<71, 97, 109, 101, 58, 58, 68, 121, 110, 97, 109, 105, 99, 83, 99, 97, 108, 101, 69, 102, 102, 101, 99, 116, 68, 97, 116, 97>>,
       <<71, 97, 109, 101, 58, 58, 69, 102, 102, 101, 99, 116, 83, 99, 97, 108, 101>>,
       <<71, 97, 109, 101, 58, 58, 68, 121, 110, 97, 109, 105, 99, 69, 102, 102, 101, 99, 116, 68, 97, 116, 97, 80, 97, 114, 97, 109, 115>>,
       <<71, 97, 109, 101, 58, 58, 69, 102, 102, 101, 99, 116, 79, 110, 69, 102, 102, 101, 99, 116>>,
       <<71, 97, 109, 101, 58, 58, 79, 114, 98, 105, 116, 101, 114, 84, 121, 112, 101>>,
       <<71, 97, 109, 101, 58, 58, 69, 102, 102, 101, 99, 116, 67, 108, 111, 110, 101, 77, 101, 115, 104>>,
       <<71, 97, 109, 101, 58, 58, 69, 102, 102, 101, 99, 116, 84, 121, 112, 101>>,
       <<71, 97, 109, 101, 58, 58, 122, 95, 109, 101, 115, 104, 95, 99, 111, 109, 109, 111, 110, 95, 99, 108, 97, 115, 115, 95, 100, 111, 95, 110, 111, 116, 95, 117, 115, 101>>,
       <<71, 97, 109, 101, 58, 58, 69, 102, 102, 101, 99, 116, 66, 97, 115, 101>>,
       <<71, 97, 109, 101, 58, 58, 68, 121, 110, 97, 109, 105, 99, 84, 104, 114, 111, 119, 97, 98, 108, 101>>,
       <<71, 97, 109, 101, 58, 58, 84, 104, 114, 111, 119, 97, 98, 108, 101>>,
       <<71, 97, 109, 101, 58, 58, 84, 104, 114, 111, 119, 97, 98, 108, 101, 84, 121, 112, 101>>,
       <<71, 97, 109, 101, 58, 58, 80, 111, 119, 101, 114, 117, 112>>,
       <<71, 97, 109, 101, 58, 58, 80, 111, 119, 101, 114, 117, 112, 84, 121, 112, 101>>,
       <<71, 97, 109, 101, 58, 58, 80, 111, 116, 105, 111, 110>>,
       <<71, 97, 109, 101, 58, 58, 80, 111, 116, 105, 111, 110, 84, 121, 112, 101>>,
       <<71, 97, 109, 101, 58, 58, 87, 101, 97, 112, 111, 110>>,
       <<71, 97, 109, 101, 58, 58, 87, 101, 97, 112, 111, 110, 84, 121, 112, 101>>,
       <<71, 97, 109, 101, 58, 58, 80, 114, 111, 112>>,
       <<71, 97, 109, 101, 58, 58, 80, 114, 111, 112, 84, 121, 112, 101>>,
       <<71, 97, 109, 101, 58, 58, 73, 116, 101, 109>>,
       <<71, 97, 109, 101, 58, 58, 73, 116, 101, 109, 84, 121, 112, 101>>,
       <<71, 97, 109, 101, 58, 58, 80, 114, 111, 106, 101, 99, 116, 105, 108, 101>>,
       <<71, 97, 109, 101, 58, 58, 80, 114, 111, 106, 101, 99, 116, 105, 108, 101, 84, 121, 112, 101>>,
       <<71, 97, 109, 101, 58, 58, 84, 97, 114, 103, 101, 116>>,
       <<71, 97, 109, 101, 58, 58, 99, 97, 109, 77, 97, 110, 97, 103, 101, 114>>,
       <<71, 97, 109, 101, 58, 58, 99, 97, 109, 76, 101, 118, 101, 108, 83, 112, 101, 99>>,
       <<71, 97, 109, 101, 58, 58, 99, 97, 109, 66, 101, 104, 97, 118, 105, 111, 114, 84, 114, 97, 99, 107, 69, 110, 116, 105, 116, 121>>,
       <<71, 97, 109, 101, 58, 58, 99, 97, 109, 66, 101, 104, 97, 118, 105, 111, 114, 70, 111, 117, 114, 80, 108, 97, 121, 101, 114>>,
       <<71, 97, 109, 101, 58, 58, 99, 97, 109, 66, 101, 104, 97, 118, 105, 111, 114, 84, 104, 114, 101, 101, 65, 110, 103, 108, 101>>,
       <<71, 97, 109, 101, 58, 58, 99, 97, 109, 66, 101, 104, 97, 118, 105, 111, 114, 84, 104, 114, 101, 101, 65, 110, 103, 108, 101, 67, 108, 111, 110, 101>>,
       <<71, 97, 109, 101, 58, 58, 99, 97, 109, 66, 101, 104, 97, 118, 105, 111, 114, 70, 105, 120, 101, 100, 67, 97, 109>>,
       <<71, 97, 109, 101, 58, 58, 99, 97, 109, 66, 101, 104, 97, 118, 105, 111, 114, 67, 111, 109, 98, 97, 116, 83, 105, 109, 112, 108, 101>>,
       <<71, 97, 109, 101, 58, 58, 99, 97, 109, 66, 101, 104, 97, 118, 105, 111, 114, 67, 104, 97, 115, 101>>,
       <<71, 97, 109, 101, 58, 58, 99, 97, 109, 66, 101, 104, 97, 118, 105, 111, 114, 79, 114, 98, 105, 116>>,
       <<71, 97, 109, 101, 58, 58, 99, 97, 109, 66, 101, 104, 97, 118, 105, 111, 114, 79, 102, 102, 115, 101, 116>>,
       <<71, 97, 109, 101, 58, 58, 99, 97, 109, 66, 101, 104, 97, 118, 105, 111, 114, 83, 116, 97, 116, 105, 99>>,
       <<71, 97, 109, 101, 58, 58, 99, 97, 109, 66, 101, 104, 97, 118, 105, 111, 114, 86, 101, 114, 116>>,
       <<71, 97, 109, 101, 58, 58, 99, 97, 109, 66, 101, 104, 97, 118, 105, 111, 114>>,
       <<71, 97, 109, 101, 58, 58, 77, 97, 114, 107>>,
       <<71, 97, 109, 101, 58, 58, 66, 101, 104, 97, 118, 105, 111, 114, 70, 105, 103, 104, 116, 105, 110, 103, 67, 111, 110, 116, 114, 111, 108, 83, 104, 114, 101, 107>>,
       <<71, 97, 109, 101, 58, 58, 66, 101, 104, 97, 118, 105, 111, 114>>,
       <<71, 97, 109, 101, 58, 58, 77, 101, 100, 97, 108, 68, 105, 115, 112, 108, 97, 121>>,
       <<71, 97, 109, 101, 58, 58, 84, 114, 111, 112, 104, 121, 73, 110, 105, 116, 105, 97, 108, 105, 122, 101, 114>>,
       <<71, 97, 109, 101, 58, 58, 77, 101, 100, 97, 108, 82, 101, 119, 97, 114, 100, 83, 116, 97, 116>>,
       <<71, 97, 109, 101, 58, 58, 77, 101, 100, 97, 108, 82, 101, 119, 97, 114, 100, 69, 118, 101, 110, 116>>,
       <<71, 97, 109, 101, 58, 58, 77, 101, 100, 97, 108>>,
       <<71, 97, 109, 101, 58, 58, 84, 114, 111, 112, 104, 121>>,
       <<71, 97, 109, 101, 58, 58, 78, 97, 118, 71, 114, 97, 112, 104>>,
       <<71, 97, 109, 101, 58, 58, 78, 97, 118, 82, 101, 115, 117, 108, 116>>,
       <<71, 97, 109, 101, 58, 58, 78, 97, 118, 65, 114, 101, 97>>,
       <<71, 97, 109, 101, 58, 58, 78, 97, 118, 65, 114, 101, 97, 76, 105, 110, 107>>,
       <<71, 97, 109, 101, 58, 58, 78, 97, 118, 83, 112, 108, 105, 110, 101, 76, 105, 110, 107>>,
       <<71, 97, 109, 101, 58, 58, 78, 97, 118, 76, 105, 110, 107>>,
       <<71, 97, 109, 101, 58, 58, 66, 101, 104, 97, 118, 105, 111, 114, 65, 73, 70, 105, 103, 104, 116, 105, 110, 103>>,
       <<71, 97, 109, 101, 58, 58, 80, 108, 97, 110, 84, 104, 114, 101, 97, 100>>,
       <<71, 97, 109, 101, 58, 58, 65, 73, 80, 97, 114, 97, 109, 115>>,
       <<71, 97, 109, 101, 58, 58, 66, 101, 104, 97, 118, 105, 111, 114, 69, 108, 101, 109, 101, 110, 116>>,
       <<71, 97, 109, 101, 58, 58, 77, 111, 118, 101, 109, 101, 110, 116, 80, 97, 114, 97, 109, 115>>,
       <<71, 97, 109, 101, 58, 58, 67, 111, 109, 98, 111, 83, 112, 101, 99, 80, 97, 114, 97, 109, 115>>,
       <<71, 97, 109, 101, 58, 58, 65, 116, 116, 97, 99, 107, 67, 104, 111, 105, 99, 101>>,
       <<71, 97, 109, 101, 58, 58, 65, 73, 65, 116, 116, 97, 99, 107, 70, 105, 108, 116, 101, 114>>,
       <<71, 97, 109, 101, 58, 58, 82, 101, 115, 112, 111, 110, 115, 101, 67, 117, 114, 118, 101>>,
       <<71, 97, 109, 101, 58, 58, 83, 116, 114, 97, 116, 101, 103, 121, 83, 101, 116>>,
       <<71, 97, 109, 101, 58, 58, 83, 116, 114, 97, 116, 101, 103, 121>>,
       <<71, 97, 109, 101, 58, 58, 70, 105, 116, 110, 101, 115, 115, 70, 117, 110, 99, 116, 105, 111, 110>>,
       <<71, 97, 109, 101, 58, 58, 70, 105, 116, 110, 101, 115, 115, 70, 117, 110, 99, 116, 105, 111, 110, 69, 108, 101, 109, 101, 110, 116>>,
       <<71, 97, 109, 101, 58, 58, 80, 108, 97, 110, 69, 108, 101, 109, 101, 110, 116>>,
       <<71, 97, 109, 101, 58, 58, 65, 73, 80, 101, 114, 99, 101, 112, 116, 105, 111, 110>>,
       <<103, 102, 58, 58, 79, 98, 106, 101, 99, 116>>,
       <<103, 102, 58, 58, 76, 111, 99, 97, 108, 105, 122, 101, 100, 83, 116, 114, 105, 110, 103>>,
       <<71, 70, 95, 84, 69, 77, 80, 58, 58, 83, 99, 114, 105, 112, 116, 68, 66>>,
       <<71, 70, 95, 84, 69, 77, 80, 58, 58, 72, 97, 110, 100, 121, 79, 98, 106, 101, 99, 116>>,
       <<103, 102, 58, 58, 68, 66>>,
       <<97, 110, 105, 109, 58, 58, 76, 111, 111, 107, 97, 116, 68, 97, 116, 97>>,
       <<114, 101, 110, 100, 101, 114, 58, 58, 83, 112, 108, 105, 110, 101, 73, 110, 115, 116, 97, 110, 99, 101>>,
       <<114, 101, 110, 100, 101, 114, 58, 58, 68, 105, 114, 101, 99, 116, 105, 111, 110, 97, 108, 69, 109, 105, 116, 116, 101, 114>>,
       <<114, 101, 110, 100, 101, 114, 58, 58, 68, 105, 115, 107, 69, 109, 105, 116, 116, 101, 114>>,
       <<114, 101, 110, 100, 101, 114, 58, 58, 83, 112, 104, 101, 114, 105, 99, 97, 108, 69, 109, 105, 116, 116, 101, 114>>,
       <<114, 101, 110, 100, 101, 114, 58, 58, 80, 97, 114, 116, 83, 121, 115, 70, 88, 69, 109, 105, 116, 116, 101, 114, 68, 101, 115, 99>>,
       <<114, 101, 110, 100, 101, 114, 58, 58, 76, 105, 103, 104, 116, 73, 110, 115, 116, 97, 110, 99, 101>>,
       <<114, 101, 110, 100, 101, 114, 58, 58, 70, 73, 84, 76, 111, 97, 100, 101, 114>>,
       <<114, 101, 110, 100, 101, 114, 58, 58, 70, 73, 84, 101, 120>>,
       <<114, 101, 110, 100, 101, 114, 58, 58, 84, 101, 120, 66, 111, 120, 83, 105, 109, 112, 108, 101>>,
       <<114, 101, 110, 100, 101, 114, 58, 58, 84, 101, 120, 66, 111, 120, 65, 76, 84>>,
       <<114, 101, 110, 100, 101, 114, 58, 58, 70, 111, 110, 116, 66, 111, 120, 65, 76, 84>>,
       <<114, 101, 110, 100, 101, 114, 58, 58, 70, 111, 110, 116, 66, 111, 120>>,
       <<114, 101, 110, 100, 101, 114, 58, 58, 84, 101, 120, 66, 111, 120>>,
       <<114, 101, 110, 100, 101, 114, 58, 58, 73, 110, 116, 101, 114, 102, 97, 99, 101, 66, 111, 120>>,
       <<114, 101, 110, 100, 101, 114, 58, 58, 70, 111, 110, 116, 83, 116, 114, 105, 110, 103, 77, 97, 110, 97, 103, 101, 114>>,
       <<114, 101, 110, 100, 101, 114, 58, 58, 70, 111, 110, 116, 83, 116, 114, 105, 110, 103>>,
       <<114, 101, 110, 100, 101, 114, 58, 58, 70, 111, 110, 116, 83, 116, 121, 108, 101>>,
       <<114, 101, 110, 100, 101, 114, 58, 58, 70, 111, 110, 116, 77, 97, 110, 97, 103, 101, 114>>,
       <<114, 101, 110, 100, 101, 114, 58, 58, 70, 111, 110, 116, 76, 111, 97, 100, 101, 114>>,
       <<114, 101, 110, 100, 101, 114, 58, 58, 77, 97, 120, 67, 97, 109, 101, 114, 97>>,
       <<114, 101, 110, 100, 101, 114, 58, 58, 67, 97, 109, 101, 114, 97>>,
       <<114, 101, 110, 100, 101, 114, 58, 58, 66, 111, 120, 73, 110, 115, 116, 97, 110, 99, 101>>,
       <<114, 101, 110, 100, 101, 114, 58, 58, 65, 117, 120, 105, 108, 105, 97, 114, 121, 79, 98, 106, 101, 99, 116>>,
       <<98, 105, 110, 58, 58, 79, 98, 106, 101, 99, 116>>,
       <<99, 111, 114, 101, 58, 58, 79, 98, 106, 67, 111, 108, 108, 101, 99, 116, 105, 111, 110>> >>
-----------------------------------------------------------------------------
(* src/src/files/bin.rs: the header, the sections and the object stubs      *)

\* Bin::header_length
header_length == 64

Builds == {"debug", "release"}

\* the u32 at &raw[i..i + 4]; the caller checks the range
WordAt(raw, c, i) == read_u32(c, Slice(raw, i, i + 4)).val

\* the u32 at &raw[i..i + 4], `as usize`
NumAt(raw, c, i) == Usize(WordAt(raw, c, i))

\* BinHeader::new on &raw[0x00..0x40]
BinHeader_new(raw, c) ==
    [offset1      |-> WordAt(raw, c, 16),
     sections     |-> WordAt(raw, c, 24),
     offset2      |-> WordAt(raw, c, 28),
     dependencies |-> WordAt(raw, c, 36),
     offset4      |-> WordAt(raw, c, 44)]

\* BinSection::new on the 16 bytes of a section descriptor
BinSection_new(raw16, offset, c) ==
    [number |-> WordAt(raw16, c, 0),
     size   |-> WordAt(raw16, c, 4),
     offset |-> offset]

\* BinObject::new keeping the relocated offset in the stub: the relocation
\* invariant must tell it from BinObject_new
BinObject_new_relocated(raw, offset, c) ==
    IF ~SliceOk(raw, header_length + Usize(offset), header_length + Usize(offset) + 4)
    THEN Panic
    ELSE Let([hash \in {WordAt(raw, c, header_length + Usize(offset))} |->
         Let([name \in {hash_lookup(hash)} |->
             IF name # <<>>
             THEN Ok([hash |-> hash, name |-> name[1],
                      offset |-> AddU32(offset, W(header_length)).val])
             ELSE Err([type |-> "IncorrectType", hash |-> hash])])])

\* BinObject::new: the stub of the object at file offset `offset`
BinObject_new(raw, offset, c) ==
    IF ~SliceOk(raw, header_length + Usize(offset), header_length + Usize(offset) + 4)
    THEN Panic
    ELSE Let([hash \in {WordAt(raw, c, header_length + Usize(offset))} |->
         Let([name \in {hash_lookup(hash)} |->
             IF name # <<>>
             THEN Ok([hash |-> hash, name |-> name[1], offset |-> offset])
             ELSE Err([type |-> "IncorrectType", hash |-> hash])])])

\* .collect(): the items so far, then those of the rest unless it failed
Collect(here, rest) ==
    IF rest.kind = "Ok" THEN Ok(here \o rest.val) ELSE rest

\* Bin::new, the first loop: the sections from descriptor i on, the pointers of
\* the first of them starting at section_dst_offset
RECURSIVE BinSections(_, _, _, _, _, _, _)
BinSections(raw, c, build, section_begin_offset, count, i, section_dst_offset) ==
    IF i >= Usize(count) THEN Ok(<<>>)
    ELSE Let([step \in {MulU32(W(i), 16)} |->
         Let([at \in {AddU32(section_begin_offset, step.val)} |->
             IF build = "debug" /\ (step.overflow \/ at.overflow) THEN Panic
             ELSE IF ~SliceOk(raw, Usize(at.val), Usize(at.val) + 16) THEN Panic
             ELSE Let([section \in {BinSection_new(
                                        Slice(raw, Usize(at.val), Usize(at.val) + 16),
                                        section_dst_offset, c)} |->
                  Let([bytes \in {MulU32(section.size, 4)} |->
                  Let([next \in {AddU32(section_dst_offset, bytes.val)} |->
                      IF build = "debug" /\ (bytes.overflow \/ next.overflow)
                      THEN Panic
                      ELSE Collect(<<section>>,
                                   BinSections(raw, c, build, section_begin_offset,
                                               count, i + 1, next.val))])])])])])

\* Bin::new, the inner loop: the stubs of pointers j.. of one section
RECURSIVE SectionObjects(_, _, _, _, _)
SectionObjects(raw, c, build, section, j) ==
    IF j >= Usize(section.size) THEN Ok(<<>>)
    ELSE Let([step \in {MulU32(W(j), 4)} |->
         Let([at \in {AddU32(section.offset, step.val)} |->
             IF build = "debug" /\ (step.overflow \/ at.overflow) THEN Panic
             ELSE IF ~SliceOk(raw, Usize(at.val), Usize(at.val) + 4) THEN Panic
             ELSE Let([obj \in {BinObject_new(raw, WordAt(raw, c, Usize(at.val)), c)} |->
                      IF obj.kind # "Ok" THEN obj
                      ELSE Collect(<<obj.val>>,
                                   SectionObjects(raw, c, build, section, j + 1))])])])

\* the second loop without the test of the section number: the enumerated
\* stubs must tell it from BinObjects
RECURSIVE BinObjects_every_kind(_, _, _, _, _)
BinObjects_every_kind(raw, c, build, sections, k) ==
    IF k > Len(sections) THEN Ok(<<>>)
    ELSE Let([here \in {SectionObjects(raw, c, build, sections[k], 0)} |->
             IF here.kind # "Ok" THEN here
             ELSE Collect(here.val,
                          BinObjects_every_kind(raw, c, build, sections, k + 1))])

\* Bin::new, the second loop: the stubs of every section whose number is 1
RECURSIVE BinObjects(_, _, _, _, _)
BinObjects(raw, c, build, sections, k) ==
    IF k > Len(sections) THEN Ok(<<>>)
    ELSE Let([here \in {IF sections[k].number = W(1)
                        THEN SectionObjects(raw, c, build, sections[k], 0)
                        ELSE Ok(<<>>)} |->
             IF here.kind # "Ok" THEN here
             ELSE Collect(here.val, BinObjects(raw, c, build, sections, k + 1))])

\* Bin::new that starts the first pointer table right after the dependencies,
\* leaving out the fourth table: the derived offsets must tell it from
\* Bin_tables
Bin_tables_no_ptr4(raw, c, build) ==
    IF ~SliceOk(raw, 0, header_length) THEN Panic
    ELSE Let([header \in {BinHeader_new(Slice(raw, 0, header_length), c)} |->
             BinSections(raw, c, build, AddU32(W(header_length), header.offset1).val,
                         header.sections, 0,
                         W(header_length + Usize(header.offset1)
                             + 16 * Usize(header.sections)
                             + 128 * Usize(header.dependencies)))])

\* Bin::new, line 139-165: Ok(the section descriptors, each with the offset
\* given to its pointer table), or a panic
Bin_tables(raw, c, build) ==
    IF ~SliceOk(raw, 0, header_length) THEN Panic
    ELSE Let([header \in {BinHeader_new(Slice(raw, 0, header_length), c)} |->
         Let([section_begin_offset \in {AddU32(W(header_length), header.offset1)},
              sections_size \in {MulU32(header.sections, 16)},
              dependencies_size \in {MulU32(header.dependencies, 128)},
              ptr4_size \in {MulU32(header.offset4, header_length)} |->
         Let([dependencies_begin_offset \in
                  {AddU32(section_begin_offset.val, sections_size.val)} |->
         Let([ptr4_begin_offset \in
                  {AddU32(dependencies_begin_offset.val, dependencies_size.val)} |->
         Let([section_dst_offset \in
                  {AddU32(ptr4_begin_offset.val, ptr4_size.val)} |->
             IF build = "debug" /\ \E x \in {section_begin_offset, sections_size,
                                             dependencies_begin_offset,
                                             dependencies_size, ptr4_begin_offset,
                                             ptr4_size, section_dst_offset} :
                                       x.overflow
             THEN Panic
             ELSE BinSections(raw, c, build, section_begin_offset.val,
                              header.sections, 0, section_dst_offset.val)])])])])])


\* Bin::new: Ok(the stubs), or the error, or a panic
Bin_new(raw, c, build) ==
    Let([sections \in {Bin_tables(raw, c, build)} |->
        IF sections.kind # "Ok" THEN sections
        ELSE BinObjects(raw, c, build, sections.val, 1)])

\* Bin::get_str_from_offset: the bytes up to the first NUL of &raw[str_begin..],
\* no bytes when there is no NUL (unwrap_or(0)); ISO 8859-1 decodes each byte
\* to the character of the same code
get_str_from_offset(bin, offset) ==
    LET str_begin == Usize(offset) + header_length
        n == Len(bin.raw) IN
    IF str_begin > n THEN Panic
    ELSE IF \E i \in str_begin..(n - 1) : At(bin.raw, i) = 0
    THEN LET nul == CHOOSE i \in str_begin..(n - 1) :
                        /\ At(bin.raw, i) = 0
                        /\ \A j \in str_begin..(i - 1) : At(bin.raw, j) # 0 IN
         Ok(Slice(bin.raw, str_begin, nul))
    ELSE Ok(<<>>)

-----------------------------------------------------------------------------
(* src/src/classes: the scalar fields of the writable classes               *)

\* the scalar fields AttackMoveType::new reads: <<field, offset in the object, type>>
AttackMoveTypeReads ==
    << <<"endlag", 4, "f32">>, <<"invincibility", 12, "f32">>, <<"fall_speed", 20, "f32">>,
       <<"aim_range", 116, "f32">>, <<"damage1", 132, "f32">>, <<"damage2", 136, "f32">>,
       <<"damage3", 140, "f32">>, <<"charge_effect", 148, "f32">>, <<"charge", 152, "f32">>,
       <<"multi_hit_speed", 160, "f32">>, <<"stun", 164, "f32">>, <<"knockback", 172, "f32">>,
       <<"unknown_008", 8, "f32">>, <<"unknown_010", 16, "f32">>, <<"unknown_018", 24, "f32">>,
       <<"unknown_03c", 60, "u32">>, <<"unknown_070", 112, "f32">>, <<"unknown_078", 120, "f32">>,
       <<"unknown_07c", 124, "f32">>, <<"unknown_090", 144, "f32">>, <<"unknown_0a8", 168, "f32">>,
       <<"unknown_0b0", 176, "f32">>, <<"unknown_0b4", 180, "f32">>, <<"unknown_0b8", 184, "f32">>,
       <<"unknown_0bc", 188, "f32">>,
       <<"unknown_0c0_shielded_opponent_horizontal_vector", 192, "f32">>,
       <<"unknown_0c4", 196, "f32">>, <<"unknown_0d8", 216, "f32">>, <<"unknown_0dc", 220, "f32">>,
       <<"unknown_0e0", 224, "f32">>, <<"unknown_0e4", 228, "f32">>, <<"unknown_0e8", 232, "f32">>,
       <<"unknown_0ec", 236, "f32">>, <<"unknown_120", 288, "f32">>, <<"unknown_124", 292, "f32">>,
       <<"unknown_128", 296, "f32">>, <<"unknown_12c", 300, "f32">>, <<"unknown_130", 304, "f32">>,
       <<"unknown_134", 308, "f32">>, <<"unknown_138", 312, "f32">>, <<"unknown_13c", 316, "f32">>,
       <<"is_slam", 44, "bool">>, <<"shield_breaks", 46, "bool">>, <<"lock_position", 49, "bool">>,
       <<"no_opponent_contact", 50, "bool">>, <<"hits_otg", 51, "bool">>,
       <<"knocks_down", 52, "bool">>, <<"disabled", 53, "bool">>, <<"intangible", 58, "bool">>,
       <<"unknown_02d", 45, "bool">>, <<"unknown_02f", 47, "bool">>, <<"unknown_030", 48, "bool">>,
       <<"unknown_036", 54, "bool">>, <<"unknown_037", 55, "bool">>, <<"unknown_038", 56, "bool">>,
       <<"unknown_039", 57, "bool">>, <<"unknown_040", 64, "bool">>, <<"unknown_041", 65, "bool">>,
       <<"unknown_042", 66, "bool">>, <<"unknown_043", 67, "bool">>, <<"unknown_044", 68, "bool">>,
       <<"unknown_045_max_255", 69, "u8">>, <<"unknown_046_max_128", 70, "i8">>,
       <<"unknown_047", 71, "bool">>, <<"unknown_049_does_something_if_5_max_value_255", 73, "u8">>,
       <<"unknown_04a", 74, "bool">>, <<"unknown_04b", 75, "bool">> >>

\* the scalar fields AttackMoveType::write writes, in the order written
AttackMoveTypeWrites ==
    << <<"endlag", 4, "f32">>, <<"invincibility", 12, "f32">>, <<"fall_speed", 20, "f32">>,
       <<"is_slam", 44, "bool">>, <<"shield_breaks", 46, "bool">>, <<"lock_position", 49, "bool">>,
       <<"no_opponent_contact", 50, "bool">>, <<"hits_otg", 51, "bool">>,
       <<"knocks_down", 52, "bool">>, <<"disabled", 53, "bool">>, <<"intangible", 58, "bool">>,
       <<"aim_range", 116, "f32">>, <<"damage1", 132, "f32">>, <<"damage2", 136, "f32">>,
       <<"damage3", 140, "f32">>, <<"charge_effect", 148, "f32">>, <<"charge", 152, "f32">>,
       <<"multi_hit_speed", 160, "f32">>, <<"stun", 164, "f32">>, <<"knockback", 172, "f32">>,
       <<"unknown_008", 8, "f32">>, <<"unknown_010", 16, "f32">>, <<"unknown_018", 24, "f32">>,
       <<"unknown_03c", 60, "u32">>, <<"unknown_070", 112, "f32">>, <<"unknown_078", 120, "f32">>,
       <<"unknown_07c", 124, "f32">>, <<"unknown_090", 144, "f32">>, <<"unknown_0a8", 168, "f32">>,
       <<"unknown_0b0", 176, "f32">>, <<"unknown_0b4", 180, "f32">>, <<"unknown_0b8", 184, "f32">>,
       <<"unknown_0bc", 188, "f32">>,
       <<"unknown_0c0_shielded_opponent_horizontal_vector", 192, "f32">>,
       <<"unknown_0c4", 196, "f32">>, <<"unknown_0d8", 216, "f32">>, <<"unknown_0dc", 220, "f32">>,
       <<"unknown_0e0", 224, "f32">>, <<"unknown_0e4", 228, "f32">>, <<"unknown_0e8", 232, "f32">>,
       <<"unknown_0ec", 236, "f32">>, <<"unknown_120", 288, "f32">>, <<"unknown_124", 292, "f32">>,
       <<"unknown_128", 296, "f32">>, <<"unknown_12c", 300, "f32">>, <<"unknown_130", 304, "f32">>,
       <<"unknown_134", 308, "f32">>, <<"unknown_138", 312, "f32">>, <<"unknown_13c", 316, "f32">>,
       <<"unknown_02d", 45, "bool">>, <<"unknown_02f", 47, "bool">>, <<"unknown_030", 48, "bool">>,
       <<"unknown_036", 54, "bool">>, <<"unknown_037", 55, "bool">>, <<"unknown_038", 56, "bool">>,
       <<"unknown_039", 57, "bool">>, <<"unknown_040", 64, "bool">>, <<"unknown_041", 65, "bool">>,
       <<"unknown_042", 66, "bool">>, <<"unknown_043", 67, "bool">>, <<"unknown_044", 68, "bool">>,
       <<"unknown_045_max_255", 69, "u8">>, <<"unknown_046_max_128", 70, "i8">>,
       <<"unknown_047", 71, "bool">>, <<"unknown_049_does_something_if_5_max_value_255", 73, "u8">>,
       <<"unknown_04a", 74, "bool">>, <<"unknown_04b", 75, "bool">> >>

\* the scalar fields ProjectileType::new reads: <<field, offset in the object, type>>
ProjectileTypeReads ==
    << <<"x_vector", 8, "f32">>, <<"angle", 20, "f32">>, <<"arc", 24, "f32">>,
       <<"homing1", 68, "f32">>, <<"homing2", 72, "f32">>, <<"homing3", 76, "f32">> >>

\* the scalar fields ProjectileType::write writes, in the order written
ProjectileTypeWrites ==
    << <<"x_vector", 8, "f32">>, <<"angle", 20, "f32">>, <<"arc", 24, "f32">>,
       <<"homing1", 68, "f32">>, <<"homing2", 72, "f32">>, <<"homing3", 76, "f32">> >>

\* the scalar fields AttackMoveRegion::new reads: <<field, offset in the object, type>>
AttackMoveRegionReads ==
    << <<"delay", 4, "f32">>, <<"width", 48, "f32">>, <<"radius", 56, "f32">>,
       <<"unknown_010", 16, "f32">>, <<"unknown_024", 36, "f32">> >>

\* the scalar fields AttackMoveRegion::write writes, in the order written
AttackMoveRegionWrites ==
    << <<"delay", 4, "f32">>, <<"width", 48, "f32">>, <<"radius", 56, "f32">>,
       <<"unknown_010", 16, "f32">>, <<"unknown_024", 36, "f32">> >>

\* the scalar fields PhysicsFighting::new reads: <<field, offset in the object, type>>
PhysicsFightingReads ==
    << <<"m_airborn_land_dist", 2104, "f32">>, <<"m_airborn_no_catch_bias", 2108, "f32">>,
       <<"ground_leave_dist_walk", 2112, "f32">>, <<"ground_leave_dist_stairs", 2116, "f32">>,
       <<"m_jump_up_vel_influence", 2124, "f32">>, <<"jump_takeoff_max_time", 2128, "f32">>,
       <<"jump_delay", 2132, "f32">>, <<"off_ledge_vel_stop", 2136, "f32">>,
       <<"off_ledge_vel_drop", 2140, "f32">>, <<"off_ledge_vel_roll", 2144, "f32">>,
       <<"block_time_max", 2196, "f32">>, <<"block_time_recharge", 2200, "f32">>,
       <<"block_power_max", 2208, "f32">>, <<"block_power_recharge", 2212, "f32">>,
       <<"jump_peak_vel", 2220, "f32">>, <<"jump_takeoff_region_time", 2244, "f32">>,
       <<"jump_power_normal", 2248, "f32">>, <<"jump_power_double", 2252, "f32">>,
       <<"jump_teleport_up_dist", 2256, "f32">>, <<"jump_teleport_flat_dist", 2260, "f32">>,
       <<"jump_teleport_flat_up_dist", 2264, "f32">>, <<"jump_power_ledge", 2268, "f32">>,
       <<"jump_power_wall", 2272, "f32">>, <<"jump_power_wall_outward", 2276, "f32">>,
       <<"jump_power_grapple", 2280, "f32">>, <<"dump_up_vel", 2284, "f32">>,
       <<"dump_flat_vel", 2288, "f32">>, <<"accumulated_vel_air_fric", 2548, "f32">>,
       <<"accumulated_vel_ground_fric", 2552, "f32">>, <<"wall_bounce_low", 2556, "f32">>,
       <<"wall_bounce_medium", 2560, "f32">>, <<"wall_bounce_high", 2564, "f32">>,
       <<"hit_pause_delay", 2568, "f32">>, <<"hit_pause_light", 2572, "f32">>,
       <<"hit_pause_medium", 2576, "f32">>, <<"hit_pause_strong", 2580, "f32">>,
       <<"attack_speed_filter", 2604, "f32">>, <<"move_speed_filter", 2616, "f32">>,
       <<"min_loose_camera_radius", 2656, "f32">>, <<"max_loose_camera_radius", 2660, "f32">>,
       <<"tight_camera_radius", 2668, "f32">>, <<"camera_actual_vel_influence", 2672, "f32">>,
       <<"camera_actual_vel_max", 2676, "f32">>, <<"camera_vel_influence", 2680, "f32">>,
       <<"camera_vel_max", 2684, "f32">>, <<"deflect_time_max", 2692, "f32">>,
       <<"deflection_delay", 2716, "f32">>, <<"deflect_reset_time", 2760, "f32">>,
       <<"jump_teleport_time", 2788, "f32">>, <<"juggle_gravity", 2792, "f32">>,
       <<"knockback_fric_ground", 2860, "f32">>, <<"knockback_fric_air", 2868, "f32">>,
       <<"knockdown_fric", 2872, "f32">>, <<"m_airborn_land_dist_stairs", 2876, "f32">>,
       <<"wall_trap_hit_timer", 2892, "f32">>, <<"wall_trap_up_vector", 2896, "f32">>,
       <<"wall_trap_vel_multiplier", 2900, "f32">>, <<"wall_trap_pvp_disable_timer", 2904, "f32">>,
       <<"block_gravity", 3144, "f32">>, <<"dronkey_jump_foward", 3160, "f32">>,
       <<"dronkey_jump_up", 3164, "f32">>, <<"dronkey_jump_time", 3168, "f32">>,
       <<"move_speed_up", 3200, "f32">>, <<"move_speed_up_max", 3204, "f32">>,
       <<"move_speed_down", 3208, "f32">>, <<"move_speed_down_max", 3212, "f32">>,
       <<"def_stun_1", 3292, "f32">>, <<"def_kb_mult_1", 3296, "f32">>,
       <<"def_speed_mult_1", 3300, "f32">>, <<"def_speed_mult_2", 3304, "f32">>,
       <<"def_speed_mult_3", 3308, "f32">>, <<"def_speed_mult_4", 3312, "f32">>,
       <<"def_speed_mult_5", 3316, "f32">>, <<"def_speed_mult_6", 3320, "f32">>,
       <<"def_pow_mult_1", 3324, "f32">>, <<"def_pow_mult_2", 3328, "f32">>,
       <<"def_pow_mult_3", 3332, "f32">>, <<"item_drop_knockup", 3336, "f32">>,
       <<"item_drop_knockback", 3340, "f32">>, <<"throwable_drop_knockup", 3348, "f32">>,
       <<"throwable_drop_knockback", 3352, "f32">>, <<"walkup_angle_tolerance", 3356, "f32">> >>

\* the scalar fields PhysicsFighting::write writes, in the order written
PhysicsFightingWrites ==
    << <<"m_airborn_land_dist", 2104, "f32">>, <<"m_airborn_no_catch_bias", 2108, "f32">>,
       <<"ground_leave_dist_walk", 2112, "f32">>, <<"ground_leave_dist_stairs", 2116, "f32">>,
       <<"m_jump_up_vel_influence", 2124, "f32">>, <<"jump_takeoff_max_time", 2128, "f32">>,
       <<"jump_delay", 2132, "f32">>, <<"off_ledge_vel_stop", 2136, "f32">>,
       <<"off_ledge_vel_roll", 2140, "f32">>, <<"block_time_max", 2196, "f32">>,
       <<"block_time_recharge", 2200, "f32">>, <<"block_power_max", 2208, "f32">>,
       <<"block_power_recharge", 2212, "f32">>, <<"jump_peak_vel", 2220, "f32">>,
       <<"jump_takeoff_region_time", 2244, "f32">>, <<"jump_power_normal", 2248, "f32">>,
       <<"jump_power_double", 2252, "f32">>, <<"jump_teleport_up_dist", 2256, "f32">>,
       <<"jump_teleport_flat_dist", 2260, "f32">>, <<"jump_teleport_flat_up_dist", 2264, "f32">>,
       <<"jump_power_ledge", 2268, "f32">>, <<"jump_power_wall", 2272, "f32">>,
       <<"jump_power_wall_outward", 2276, "f32">>, <<"jump_power_grapple", 2280, "f32">>,
       <<"dump_up_vel", 2284, "f32">>, <<"dump_flat_vel", 2288, "f32">>,
       <<"accumulated_vel_air_fric", 2548, "f32">>, <<"accumulated_vel_ground_fric", 2552, "f32">>,
       <<"wall_bounce_low", 2556, "f32">>, <<"wall_bounce_medium", 2560, "f32">>,
       <<"wall_bounce_high", 2564, "f32">>, <<"hit_pause_delay", 2568, "f32">>,
       <<"hit_pause_light", 2572, "f32">>, <<"hit_pause_medium", 2576, "f32">>,
       <<"hit_pause_strong", 2580, "f32">>, <<"attack_speed_filter", 2604, "f32">>,
       <<"move_speed_filter", 2616, "f32">>, <<"min_loose_camera_radius", 2656, "f32">>,
       <<"max_loose_camera_radius", 2660, "f32">>, <<"tight_camera_radius", 2668, "f32">>,
       <<"camera_actual_vel_influence", 2672, "f32">>, <<"camera_actual_vel_max", 2676, "f32">>,
       <<"camera_vel_influence", 2680, "f32">>, <<"camera_vel_max", 2684, "f32">>,
       <<"deflect_time_max", 2692, "f32">>, <<"deflection_delay", 2716, "f32">>,
       <<"deflect_reset_time", 2760, "f32">>, <<"jump_teleport_time", 2788, "f32">>,
       <<"juggle_gravity", 2792, "f32">>, <<"knockback_fric_ground", 2860, "f32">>,
       <<"knockback_fric_air", 2864, "f32">>, <<"knockdown_fric", 2868, "f32">>,
       <<"m_airborn_land_dist_stairs", 2872, "f32">>, <<"wall_trap_hit_timer", 2892, "f32">>,
       <<"wall_trap_up_vector", 2896, "f32">>, <<"wall_trap_vel_multiplier", 2900, "f32">>,
       <<"wall_trap_pvp_disable_timer", 2904, "f32">>, <<"block_gravity", 3144, "f32">>,
       <<"dronkey_jump_foward", 3160, "f32">>, <<"dronkey_jump_up", 3164, "f32">>,
       <<"dronkey_jump_time", 3168, "f32">>, <<"move_speed_up", 3200, "f32">>,
       <<"move_speed_up_max", 3204, "f32">>, <<"move_speed_down", 3208, "f32">>,
       <<"move_speed_down_max", 3212, "f32">>, <<"def_stun_1", 3292, "f32">>,
       <<"def_kb_mult_1", 3296, "f32">>, <<"def_speed_mult_1", 3300, "f32">>,
       <<"def_speed_mult_2", 3304, "f32">>, <<"def_speed_mult_3", 3308, "f32">>,
       <<"def_speed_mult_4", 3312, "f32">>, <<"def_speed_mult_5", 3316, "f32">>,
       <<"def_speed_mult_6", 3320, "f32">>, <<"def_pow_mult_1", 3324, "f32">>,
       <<"def_pow_mult_2", 3328, "f32">>, <<"def_pow_mult_3", 3332, "f32">>,
       <<"item_drop_knockup", 3336, "f32">>, <<"item_drop_knockback", 3340, "f32">>,
       <<"throwable_drop_knockup", 3348, "f32">>, <<"throwable_drop_knockback", 3352, "f32">>,
       <<"walkup_angle_tolerance", 3356, "f32">> >>

\* the scalar fields GameWorld::new reads: <<field, offset in the object, type>>
GameWorldReads ==
    << <<"playable", 20, "u32">>, <<"unknown_float_1_x", 48, "f32">>,
       <<"unknown_float_1_y", 52, "f32">>, <<"unknown_float_1_z", 56, "f32">>,
       <<"unknown_float_2_x", 64, "f32">>, <<"unknown_float_2_y", 68, "f32">>,
       <<"unknown_float_2_z", 72, "f32">> >>

\* the scalar fields GameWorld::write writes, in the order written
GameWorldWrites ==
    << <<"playable", 20, "u32">>, <<"unknown_float_1_x", 48, "f32">>,
       <<"unknown_float_1_y", 52, "f32">>, <<"unknown_float_1_z", 56, "f32">>,
       <<"unknown_float_2_x", 64, "f32">>, <<"unknown_float_2_y", 68, "f32">>,
       <<"unknown_float_2_z", 72, "f32">> >>

\* the scalar fields Spitter::new reads: <<field, offset in the object, type>>
SpitterReads ==
    << <<"unknown_004", 4, "u32">>, <<"unknown_038", 56, "u32">>, <<"unknown_044", 68, "u8">>,
       <<"unknown_045", 69, "u8">>, <<"unknown_046", 70, "u8">>, <<"unknown_047", 71, "u8">> >>

\* the scalar fields Spitter::write writes, in the order written
SpitterWrites ==
    << <<"unknown_004", 4, "u32">>, <<"unknown_038", 56, "u32">>, <<"unknown_044", 68, "u8">>,
       <<"unknown_045", 69, "u8">>, <<"unknown_046", 70, "u8">>, <<"unknown_047", 71, "u8">> >>

\* the scalar fields SpitterKeyframe::new reads: <<field, offset in the object, type>>
SpitterKeyframeReads ==
    << <<"unknown_00c", 12, "u32">> >>

\* the scalar fields SpitterKeyframe::write writes, in the order written
SpitterKeyframeWrites ==
    << <<"unknown_00c", 12, "u32">> >>

-----------------------------------------------------------------------------
(* src/src/classes: reading typed objects                                  *)

\* T::hash() of each class with a codec
ClassHash(T) ==
    CASE T = "AttackMoveRegion" -> <<242, 207, 224, 141>>
      [] T = "AttackMoveType" -> <<235, 240, 123, 181>>
      [] T = "BehaviorFightingControlShrek" -> <<211, 6, 216, 5>>
      [] T = "EffectStringReference" -> <<196, 61, 66, 13>>
      [] T = "EventSequence" -> <<210, 70, 52, 254>>
      [] T = "GameWorld" -> <<185, 116, 229, 59>>
      [] T = "GfDb" -> <<155, 61, 219, 237>>
      [] T = "ItemSpawner" -> <<205, 71, 170, 43>>
      [] T = "LocalizedString" -> <<191, 199, 120, 141>>
      [] T = "ObjectInitializer" -> <<219, 251, 74, 53>>
      [] T = "PhysicsFighting" -> <<173, 221, 241, 236>>
      [] T = "PotionType" -> <<240, 92, 123, 211>>
      [] T = "PowerupType" -> <<190, 123, 68, 186>>
      [] T = "ProjectileType" -> <<136, 17, 41, 46>>
      [] T = "RenderSpawn" -> <<166, 252, 129, 160>>
      [] T = "ScriptDb" -> <<161, 40, 230, 26>>
      [] T = "Spitter" -> <<144, 216, 252, 214>>
      [] T = "SpitterKeyframe" -> <<132, 173, 126, 112>>
      [] T = "WeaponType" -> <<254, 57, 42, 182>>

\* T::size() of each class with a codec
ClassSize(T) ==
    CASE T = "AttackMoveRegion" -> 64
      [] T = "AttackMoveType" -> 608
      [] T = "BehaviorFightingControlShrek" -> 240
      [] T = "EffectStringReference" -> 12
      [] T = "EventSequence" -> 48
      [] T = "GameWorld" -> 46128
      [] T = "GfDb" -> 36
      [] T = "ItemSpawner" -> 1672
      [] T = "LocalizedString" -> 12
      [] T = "ObjectInitializer" -> 168
      [] T = "PhysicsFighting" -> 3408
      [] T = "PotionType" -> 256
      [] T = "PowerupType" -> 228
      [] T = "ProjectileType" -> 116
      [] T = "RenderSpawn" -> 656
      [] T = "ScriptDb" -> 36
      [] T = "Spitter" -> 224
      [] T = "SpitterKeyframe" -> 256
      [] T = "WeaponType" -> 288

\* the classes resolve_object dispatches to
CodecClasses ==
    {"AttackMoveRegion", "AttackMoveType", "BehaviorFightingControlShrek",
     "EffectStringReference", "EventSequence", "GameWorld", "GfDb", "ItemSpawner",
     "LocalizedString", "ObjectInitializer", "PhysicsFighting", "PotionType",
     "PowerupType", "ProjectileType", "RenderSpawn", "ScriptDb", "Spitter",
     "SpitterKeyframe", "WeaponType"}

\* the classes that implement WriteableShrekSuperSlamGameObject
WritableClasses ==
    {"AttackMoveType", "AttackMoveRegion", "ProjectileType", "PhysicsFighting",
     "GameWorld", "Spitter", "SpitterKeyframe"}

\* the number of bytes a scalar of type t takes
FieldWidth(t) == IF t \in {"f32", "u32"} THEN 4 ELSE 1

\* one scalar read: c.read_f32(&raw[at..at + 4])?, raw[at] != 0, raw[at] as i8, ..
ReadField(bin, at, t) ==
    CASE t = "f32" -> read_f32(bin.console, Slice(bin.raw, at, at + 4)).val
      [] t = "u32" -> read_u32(bin.console, Slice(bin.raw, at, at + 4)).val
      [] t = "bool" -> At(bin.raw, at) # 0
      [] t = "u8" -> At(bin.raw, at)
      [] t = "i8" -> IF At(bin.raw, at) >= 128 THEN At(bin.raw, at) - 256
                     ELSE At(bin.raw, at)

\* the scalar reads of a constructor: a slice out of range panics
ReadFields(bin, offset, table) ==
    IF \E i \in DOMAIN table :
           offset + table[i][2] + FieldWidth(table[i][3]) > Len(bin.raw)
    THEN Panic
    ELSE Ok([n \in {table[i][1] : i \in DOMAIN table} |->
                LET i == CHOOSE j \in DOMAIN table : table[j][1] = n IN
                ReadField(bin, offset + table[i][2], table[i][3])])

\* the u32 at each of &raw[list + 4 * i ..][..4], i < count: a list of offsets
OffsetList(raw, c, list, count) ==
    IF count = 0 THEN Ok(<<>>)
    ELSE IF count > Len(raw) \/ list + 4 * count > Len(raw) THEN Panic
    ELSE Ok([i \in 1..count |-> WordAt(raw, c, list + 4 * (i - 1))])

\* AttackMoveType::number_of_hitboxes
number_of_hitboxes(raw, offset, c) ==
    IF ~SliceOk(raw, offset + 36, offset + 40) THEN Panic
    ELSE Ok(NumAt(raw, c, offset + 36))

\* AttackMoveType::hitbox_offsets: the file offsets in the table at +0x20
hitbox_offsets(raw, offset, c) ==
    Let([num_hitboxes \in {number_of_hitboxes(raw, offset, c)} |->
        IF num_hitboxes.kind # "Ok" THEN num_hitboxes
        ELSE OffsetList(raw, c, NumAt(raw, c, offset + 32) + header_length,
                        num_hitboxes.val)])

\* Spitter::keyframe_offsets: the file offsets in the table at +0x20
keyframe_offsets(raw, offset, c) ==
    IF ~SliceOk(raw, offset + 32, offset + 40) THEN Panic
    ELSE OffsetList(raw, c, NumAt(raw, c, offset + 32) + header_length,
                    NumAt(raw, c, offset + 36))

RECURSIVE get_object_from_offset(_, _, _)

\* .map(|o| bin.get_object_from_offset::<T>(*o).unwrap()).collect()
RECURSIVE UnwrapAll(_, _, _, _)
UnwrapAll(bin, T, offsets, k) ==
    IF k > Len(offsets) THEN Ok(<<>>)
    ELSE Let([o \in {get_object_from_offset(bin, T, Usize(offsets[k]))} |->
             IF o.kind # "Ok" THEN Panic
             ELSE Collect(<<o.val>>, UnwrapAll(bin, T, offsets, k + 1))])

\* util::construct_array, the entries from i on: each offset is read, then its
\* object; the first error ends the collection
RECURSIVE ArrayFrom(_, _, _, _, _)
ArrayFrom(bin, T, list_offset, list_count, i) ==
    IF i >= list_count THEN Ok(<<>>)
    ELSE IF ~SliceOk(bin.raw, header_length + list_offset + i * 4,
                     header_length + list_offset + i * 4 + 4)
    THEN Panic
    ELSE Let([o \in {get_object_from_offset(
                         bin, T, NumAt(bin.raw, bin.console,
                                       header_length + list_offset + i * 4))} |->
             IF o.kind # "Ok" THEN o
             ELSE Collect(<<o.val>>,
                          ArrayFrom(bin, T, list_offset, list_count, i + 1))])

\* util::construct_array
construct_array(bin, T, initial_object_offset, array_offset, array_count_offset) ==
    IF \/ ~SliceOk(bin.raw, initial_object_offset + array_offset,
                   initial_object_offset + array_offset + 4)
       \/ ~SliceOk(bin.raw, initial_object_offset + array_count_offset,
                   initial_object_offset + array_count_offset + 4)
    THEN Panic
    ELSE ArrayFrom(bin, T,
                   NumAt(bin.raw, bin.console, initial_object_offset + array_offset),
                   NumAt(bin.raw, bin.console,
                         initial_object_offset + array_count_offset),
                   0)

\* the constructors that keep the object's bytes: WeaponType::new, PotionType::new,
\* PowerupType::new, ObjectInitializer::new, RenderSpawn::new
BytesObject_new(T, bin, offset) ==
    IF ~SliceOk(bin.raw, offset, offset + ClassSize(T)) THEN Panic
    ELSE Ok([class |-> T, bytes |-> Slice(bin.raw, offset, offset + ClassSize(T))])

\* the constructors that read scalars only: AttackMoveRegion::new,
\* ProjectileType::new, PhysicsFighting::new, GameWorld::new
ScalarObject_new(T, table, bin, offset) ==
    Let([f \in {ReadFields(bin, offset, table)} |->
        IF f.kind # "Ok" THEN f ELSE Ok([class |-> T, f |-> f.val])])

\* the Option of an offset: None is <<>>, Some(o) is <<o>>
NonZero(word) == IF word = W(0) THEN <<>> ELSE <<word>>

\* AttackMoveType::new
AttackMoveType_new(bin, offset) ==
    Let([f \in {ReadFields(bin, offset, AttackMoveTypeReads)} |->
        IF f.kind # "Ok" \/ ~SliceOk(bin.raw, offset + 40, offset + 44)
                         \/ ~SliceOk(bin.raw, offset + 156, offset + 160)
        THEN Panic
        ELSE
        Let([name_offset \in {WordAt(bin.raw, bin.console, offset + 40)},
             projectile_offset \in
                 {NonZero(WordAt(bin.raw, bin.console, offset + 156))} |->
        Let([projectile \in
                 {UnwrapAll(bin, "ProjectileType", projectile_offset, 1)} |->
            IF projectile.kind # "Ok" THEN Panic
            ELSE
            Let([offsets \in {hitbox_offsets(bin.raw, offset, bin.console)} |->
                IF offsets.kind # "Ok" THEN offsets
                ELSE
                Let([hitboxes \in
                         {UnwrapAll(bin, "AttackMoveRegion", offsets.val, 1)} |->
                    IF hitboxes.kind # "Ok" THEN Panic
                    ELSE
                    Let([name \in {get_str_from_offset(bin, name_offset)} |->
                        IF name.kind # "Ok" THEN name
                        ELSE Ok([class |-> "AttackMoveType",
                                 f |-> f.val,
                                 name |-> name.val,
                                 hitboxes |-> hitboxes.val,
                                 projectile |-> projectile.val,
                                 hitbox_offsets |-> offsets.val,
                                 projectile_offset |-> projectile_offset])])])])])])])

\* EventSequence::new
EventSequence_new(bin, offset) ==
    IF ~SliceOk(bin.raw, offset, offset + ClassSize("EventSequence")) THEN Panic
    ELSE
    Let([bytes \in {Slice(bin.raw, offset, offset + ClassSize("EventSequence"))} |->
    Let([event_offsets \in
             {OffsetList(bin.raw, bin.console,
                         NumAt(bytes, bin.console, 4) + header_length,
                         NumAt(bytes, bin.console, 8))} |->
        IF event_offsets.kind # "Ok" THEN event_offsets
        ELSE Ok([class |-> "EventSequence", event_offsets |-> event_offsets.val,
                 bytes |-> bytes])])])

\* SpitterKeyframe::new
SpitterKeyframe_new(bin, offset) ==
    Let([f \in {ReadFields(bin, offset, SpitterKeyframeReads)} |->
        IF f.kind # "Ok" \/ ~SliceOk(bin.raw, offset + 188, offset + 192) THEN Panic
        ELSE
        Let([sequence_event_offset \in
                 {NonZero(WordAt(bin.raw, bin.console, offset + 188))} |->
        Let([event \in {IF sequence_event_offset # <<>>
                        THEN get_object_from_offset(bin, "EventSequence",
                                                    Usize(sequence_event_offset[1]))
                        ELSE Ok(<<>>)} |->
            IF event.kind # "Ok" THEN event
            ELSE Ok([class |-> "SpitterKeyframe", f |-> f.val,
                     event |-> IF sequence_event_offset # <<>> THEN <<event.val>>
                               ELSE <<>>])])])])

\* Spitter::new
Spitter_new(bin, offset) ==
    Let([offsets \in {keyframe_offsets(bin.raw, offset, bin.console)} |->
        IF offsets.kind # "Ok" THEN offsets
        ELSE
        Let([keyframes \in {UnwrapAll(bin, "SpitterKeyframe", offsets.val, 1)} |->
            IF keyframes.kind # "Ok" THEN Panic
            ELSE
            Let([f \in {ReadFields(bin, offset, SpitterReads)} |->
                IF f.kind # "Ok" THEN Panic
                ELSE Ok([class |-> "Spitter", f |-> f.val,
                         keyframes |-> keyframes.val,
                         keyframe_offsets |-> offsets.val])])])])
\* create_object_entry taking the object's offset from +8 of the entry: the
\* resolution of the directory must tell it from create_object_entry
create_object_entry_shifted(raw16, bin, c) ==
    Let([name \in {get_str_from_offset(bin, WordAt(raw16, c, 0))} |->
        IF name.kind # "Ok" THEN name
        ELSE Let([object \in {BinObject_new(bin.raw, WordAt(raw16, c, 8), c)} |->
                 IF object.kind # "Ok" THEN object
                 ELSE Ok(<<name.val, object.val>>)])])

\* db.rs create_object_entry on the 16 bytes of one entry of the gf::DB
create_object_entry(raw16, bin, c) ==
    Let([name \in {get_str_from_offset(bin, WordAt(raw16, c, 0))} |->
        IF name.kind # "Ok" THEN name
        ELSE Let([object \in {BinObject_new(bin.raw, WordAt(raw16, c, 4), c)} |->
                 IF object.kind # "Ok" THEN object
                 ELSE Ok(<<name.val, object.val>>)])])

\* GfDb::new, the entries from chunk i of &raw[objects_initial_offset..] on
RECURSIVE DbEntries(_, _, _, _)
DbEntries(bin, objects_initial_offset, objects_count, i) ==
    IF i >= objects_count THEN Ok(<<>>)
    ELSE Let([entry \in {create_object_entry(
                             Slice(bin.raw, objects_initial_offset + 16 * i,
                                   objects_initial_offset + 16 * i + 16),
                             bin, bin.console)} |->
             IF entry.kind # "Ok" THEN entry
             ELSE Collect(<<entry.val>>,
                          DbEntries(bin, objects_initial_offset, objects_count,
                                    i + 1))])

\* GfDb::new, and ScriptDb::new which reuses it
GfDb_new(T, bin, offset) ==
    IF ~SliceOk(bin.raw, offset + 20, offset + 28) THEN Panic
    ELSE Let([objects_initial_offset \in
                  {header_length + NumAt(bin.raw, bin.console, offset + 20)},
              objects_count \in {NumAt(bin.raw, bin.console, offset + 24)} |->
             IF \/ objects_count > Len(bin.raw)
                \/ ~SliceOk(bin.raw, objects_initial_offset,
                            objects_initial_offset + objects_count * 16)
             THEN Panic
             ELSE Let([objects \in {DbEntries(bin, objects_initial_offset,
                                              objects_count, 0)} |->
                      IF objects.kind # "Ok" THEN objects
                      ELSE Ok([class |-> T, entries |-> objects.val])])])

\* LocalizedString::new
LocalizedString_new(bin, offset) ==
    IF ~SliceOk(bin.raw, offset, offset + ClassSize("LocalizedString")) THEN Panic
    ELSE
    Let([bytes \in {Slice(bin.raw, offset, offset + ClassSize("LocalizedString"))} |->
    Let([string \in {get_str_from_offset(bin, WordAt(bytes, bin.console, 8))} |->
        IF string.kind # "Ok" THEN string
        ELSE Ok([class |-> "LocalizedString", string |-> string.val,
                 unknown |-> WordAt(bytes, bin.console, 4), bytes |-> bytes])])])

\* EffectStringReference::new
EffectStringReference_new(bin, offset) ==
    IF ~SliceOk(bin.raw, offset, offset + ClassSize("EffectStringReference")) THEN Panic
    ELSE
    Let([bytes \in {Slice(bin.raw, offset,
                          offset + ClassSize("EffectStringReference"))} |->
    Let([string \in {get_str_from_offset(bin, WordAt(bytes, bin.console, 4))} |->
        IF string.kind # "Ok" THEN string
        ELSE Ok([class |-> "EffectStringReference", string |-> string.val,
                 bytes |-> bytes])])])

\* ItemSpawner::new
ItemSpawner_new(bin, offset) ==
    Let([weapons \in {construct_array(bin, "WeaponType", offset, 44, 48)} |->
        IF weapons.kind # "Ok" THEN weapons
        ELSE
        Let([potions \in {construct_array(bin, "PotionType", offset, 52, 56)} |->
            IF potions.kind # "Ok" THEN potions
            ELSE
            Let([powerups \in {construct_array(bin, "PowerupType", offset, 60, 64)} |->
                IF powerups.kind # "Ok" THEN powerups
                ELSE Ok([class |-> "ItemSpawner", weapons |-> weapons.val,
                         potions |-> potions.val, powerups |-> powerups.val])])])])

\* T::new(&bin, object_begin) for each class T
New(T, bin, offset) ==
    CASE T = "AttackMoveType" -> AttackMoveType_new(bin, offset)
      [] T = "AttackMoveRegion" ->
             ScalarObject_new(T, AttackMoveRegionReads, bin, offset)
      [] T = "ProjectileType" -> ScalarObject_new(T, ProjectileTypeReads, bin, offset)
      [] T = "PhysicsFighting" -> ScalarObject_new(T, PhysicsFightingReads, bin, offset)
      [] T = "GameWorld" -> ScalarObject_new(T, GameWorldReads, bin, offset)
      [] T = "Spitter" -> Spitter_new(bin, offset)
      [] T = "SpitterKeyframe" -> SpitterKeyframe_new(bin, offset)
      [] T = "EventSequence" -> EventSequence_new(bin, offset)
      [] T \in {"GfDb", "ScriptDb"} -> GfDb_new(T, bin, offset)
      [] T = "LocalizedString" -> LocalizedString_new(bin, offset)
      [] T = "EffectStringReference" -> EffectStringReference_new(bin, offset)
      [] T = "ItemSpawner" -> ItemSpawner_new(bin, offset)
      [] T = "BehaviorFightingControlShrek" -> Ok([class |-> T])
      [] OTHER -> BytesObject_new(T, bin, offset)

\* Bin::get_object_from_offset::<T>
get_object_from_offset(bin, T, offset) ==
    IF offset + ClassSize(T) > Len(bin.raw)
    THEN Err([type |-> "NotEnoughBytes", requested |-> ClassSize(T),
              file_size |-> Len(bin.raw), offset |-> offset])
    ELSE IF ~SliceOk(bin.raw, offset + header_length, offset + header_length + 4)
    THEN Panic
    ELSE Let([hash \in {WordAt(bin.raw, bin.console, offset + header_length)} |->
             IF hash # ClassHash(T)
             THEN Err([type |-> "IncorrectType", hash |-> hash])
             ELSE New(T, bin, offset + header_length)])

\* the class resolve_object dispatches a hash to; none is <<>>
CodecOf(hash) ==
    IF \E T \in CodecClasses : ClassHash(T) = hash
    THEN <<CHOOSE T \in CodecClasses : ClassHash(T) = hash>>
    ELSE <<>>

\* resolve_object answering IncorrectType for a class without a codec: the
\* kinds of the failures must tell it from resolve_object
resolve_object_conflated(bin, object) ==
    Let([T \in {CodecOf(object.hash)} |->
        IF T # <<>>
        THEN get_object_from_offset(bin, T[1], Usize(object.offset))
        ELSE Err([type |-> "IncorrectType", hash |-> object.hash])])

\* Bin::resolve_object
resolve_object(bin, object) ==
    Let([T \in {CodecOf(object.hash)} |->
        IF T # <<>>
        THEN get_object_from_offset(bin, T[1], Usize(object.offset))
        ELSE Err([type |-> "NotImplementedError", name |-> object.name])])

\* Bin::parse, the loop: each entry is resolved and inserted under its name
RECURSIVE ParseEntries(_, _, _, _)
ParseEntries(bin, entries, k, mapping) ==
    IF k > Len(entries) THEN Ok(mapping)
    ELSE Let([object \in {resolve_object(bin, entries[k][2])} |->
             IF object.kind # "Ok" THEN object
             ELSE ParseEntries(bin, entries, k + 1,
                      [n \in DOMAIN mapping \cup {entries[k][1]} |->
                          IF n = entries[k][1] THEN object.val ELSE mapping[n]])])

\* Bin::parse
parse(bin) ==
    Let([db \in {get_object_from_offset(bin, "GfDb", 0)} |->
        IF db.kind # "Ok" THEN db
        ELSE ParseEntries(bin, db.val.entries, 1, <<>>)])
-----------------------------------------------------------------------------
(* src/src/classes: writing typed objects back                             *)

\* the outcome of a write: the buffer as the call left it
Written(raw) == [kind |-> "Ok", raw |-> raw]
Aborted(raw) == [kind |-> "Panic", raw |-> raw]

\* WriteField with a splice over three bytes, which lengthens the buffer: size
\* invariance must tell it from WriteField
WriteField_grow(raw, c, at, t, v) ==
    IF at + FieldWidth(t) > Len(raw) THEN Panic
    ELSE CASE t = "f32" -> Ok(Splice(raw, at, at + 3, write_f32(c, v)))
           [] t = "u32" -> Ok(Splice(raw, at, at + 3, write_u32(c, v)))
           [] t = "bool" -> Ok([raw EXCEPT ![at + 1] = IF v THEN 1 ELSE 0])
           [] t = "u8" -> Ok([raw EXCEPT ![at + 1] = v])
           [] t = "i8" -> Ok([raw EXCEPT ![at + 1] = (v + 256) % 256])

\* one scalar write: bin.raw.splice(at..at + 4, c.write_f32(v)?) or
\* bin.raw[at] = v as u8; a range or an index outside the buffer panics
WriteField(raw, c, at, t, v) ==
    IF at + FieldWidth(t) > Len(raw) THEN Panic
    ELSE CASE t = "f32" -> Ok(Splice(raw, at, at + 4, write_f32(c, v)))
           [] t = "u32" -> Ok(Splice(raw, at, at + 4, write_u32(c, v)))
           [] t = "bool" -> Ok([raw EXCEPT ![at + 1] = IF v THEN 1 ELSE 0])
           [] t = "u8" -> Ok([raw EXCEPT ![at + 1] = v])
           [] t = "i8" -> Ok([raw EXCEPT ![at + 1] = (v + 256) % 256])

\* the scalar writes lo..hi of a write(), in the order written; the first that
\* panics ends them
RECURSIVE WriteRange(_, _, _, _, _, _, _)
WriteRange(raw, c, offset, table, f, lo, hi) ==
    IF lo > hi THEN Written(raw)
    ELSE IF lo = hi
    THEN Let([w \in {WriteField(raw, c, offset + table[lo][2], table[lo][3],
                                f[table[lo][1]])} |->
             IF w.kind # "Ok" THEN Aborted(raw) ELSE Written(w.val)])
    ELSE Let([first \in {WriteRange(raw, c, offset, table, f, lo,
                                    (lo + hi) \div 2)} |->
             IF first.kind # "Ok" THEN first
             ELSE WriteRange(first.raw, c, offset, table, f,
                             (lo + hi) \div 2 + 1, hi)])

\* the scalar writes of a write()
WriteFields(raw, c, offset, table, f) ==
    WriteRange(raw, c, offset, table, f, 1, Len(table))

\* for (offset, child) in offsets.iter().zip(children.iter()) { child.write(bin, *offset)? }
RECURSIVE WriteZip(_, _, _, _, _, _)
WriteZip(raw, c, table, offsets, children, k) ==
    IF k > Len(offsets) \/ k > Len(children) THEN Written(raw)
    ELSE Let([w \in {WriteFields(raw, c, Usize(offsets[k]), table,
                                 children[k].f)} |->
             IF w.kind # "Ok" THEN w
             ELSE WriteZip(w.raw, c, table, offsets, children, k + 1)])

\* .iter().map(|o| o + Bin::header_length() as u32).collect(): a u32 addition
Relocated(offsets, build) ==
    IF offsets.kind # "Ok" THEN offsets
    ELSE IF build = "debug" /\ \E k \in DOMAIN offsets.val :
                                  AddU32(offsets.val[k], W(header_length)).overflow
    THEN Panic
    ELSE Ok([k \in DOMAIN offsets.val |->
                AddU32(offsets.val[k], W(header_length)).val])

\* AttackMoveType::write, line 580-589: the offsets the hitboxes are written
\* to, read from the buffer when it counts more hitboxes than the object has
\* recorded offsets
hitbox_offsets_in_use(object, raw, c, offset, build) ==
    Let([count \in {number_of_hitboxes(raw, offset, c)} |->
        IF count.kind # "Ok" THEN count
        ELSE IF count.val > Len(object.hitbox_offsets)
        THEN Relocated(hitbox_offsets(raw, offset, c), build)
        ELSE Ok(object.hitbox_offsets)])

\* AttackMoveType::write
AttackMoveType_write(object, raw, c, offset, build) ==
    Let([w \in {WriteFields(raw, c, offset, AttackMoveTypeWrites, object.f)} |->
        IF w.kind # "Ok" THEN w
        ELSE
        Let([offsets \in {hitbox_offsets_in_use(object, w.raw, c, offset, build)} |->
            IF offsets.kind # "Ok" THEN Aborted(w.raw)
            ELSE
            Let([h \in {WriteZip(w.raw, c, AttackMoveRegionWrites, offsets.val,
                                 object.hitboxes, 1)} |->
                IF h.kind # "Ok" THEN h
                ELSE IF object.projectile # <<>> /\ object.projectile_offset # <<>>
                THEN WriteFields(h.raw, c, Usize(object.projectile_offset[1]),
                                 ProjectileTypeWrites, object.projectile[1].f)
                ELSE h])])])

\* Spitter::write, line 123-132: the offsets the keyframes are written to
keyframe_offsets_in_use(object, raw, c, offset, build) ==
    IF ~SliceOk(raw, offset + 36, offset + 40) THEN Panic
    ELSE IF NumAt(raw, c, offset + 36) > Len(object.keyframe_offsets)
    THEN Relocated(keyframe_offsets(raw, offset, c), build)
    ELSE Ok(object.keyframe_offsets)

\* Spitter::write
Spitter_write(object, raw, c, offset, build) ==
    Let([w \in {WriteFields(raw, c, offset, SpitterWrites, object.f)} |->
        IF w.kind # "Ok" THEN w
        ELSE
        Let([offsets \in {keyframe_offsets_in_use(object, w.raw, c, offset, build)} |->
            IF offsets.kind # "Ok" THEN Aborted(w.raw)
            ELSE WriteZip(w.raw, c, SpitterKeyframeWrites, offsets.val,
                          object.keyframes, 1)])])

\* object.write(bin, offset) for each writable class
write(object, raw, c, offset, build) ==
    CASE object.class = "AttackMoveType" ->
             AttackMoveType_write(object, raw, c, offset, build)
      [] object.class = "Spitter" -> Spitter_write(object, raw, c, offset, build)
      [] object.class = "AttackMoveRegion" ->
             WriteFields(raw, c, offset, AttackMoveRegionWrites, object.f)
      [] object.class = "ProjectileType" ->
             WriteFields(raw, c, offset, ProjectileTypeWrites, object.f)
      [] object.class = "PhysicsFighting" ->
             WriteFields(raw, c, offset, PhysicsFightingWrites, object.f)
      [] object.class = "GameWorld" ->
             WriteFields(raw, c, offset, GameWorldWrites, object.f)
      [] object.class = "SpitterKeyframe" ->
             WriteFields(raw, c, offset, SpitterKeyframeWrites, object.f)

\* overwrite_object without the comparison of the hashes: the refusal of a write
\* over an object of another class must tell it from overwrite_object
overwrite_object_unchecked(bin, offset, object, build) ==
    IF ~SliceOk(bin.raw, offset + header_length, offset + header_length + 4)
    THEN Aborted(bin.raw)
    ELSE write(object, bin.raw, bin.console, offset + header_length, build)

\* Bin::overwrite_object
overwrite_object(bin, offset, object, build) ==
    IF ~SliceOk(bin.raw, offset + header_length, offset + header_length + 4)
    THEN Aborted(bin.raw)
    ELSE Let([hash \in {WordAt(bin.raw, bin.console, offset + header_length)} |->
             IF hash # ClassHash(object.class)
             THEN [kind |-> "Err", raw |-> bin.raw,
                   err |-> [type |-> "IncorrectType", hash |-> hash]]
             ELSE write(object, bin.raw, bin.console, offset + header_length,
                        build)])

-----------------------------------------------------------------------------
(* src/src/master_dir.rs.  The file calls console.read_u32 on slices of     *)
(* exactly four bytes and uses the result as a u32: the read cannot fail.   *)
(* A name is held as the sequence of its bytes.                             *)

\* String::from_utf8(bytes) is Ok: the names of the model are ASCII, or hold
\* the byte FF, which no UTF-8 sequence contains
Utf8Ok(bytes) == \A i \in DOMAIN bytes : bytes[i] < 128

\* MasterDirEntry::new with the two sizes taken from each other's place: the
\* parsed entries must tell it from MasterDirEntry_new
MasterDirEntry_new_swapped(entry, c) ==
    IF Len(entry) < 12 THEN Panic
    ELSE IF ~Utf8Ok(Slice(entry, 12, Len(entry))) THEN Panic
    ELSE Ok([offset      |-> WordAt(entry, c, 0),
             decomp_size |-> WordAt(entry, c, 8),
             comp_size   |-> WordAt(entry, c, 4),
             name        |-> Slice(entry, 12, Len(entry))])

\* MasterDirEntry::new: the slices &entry[0..4], [4..8], [8..12] and [12..]
\* panic on an entry shorter than 12 bytes, the unwrap on a name that is not
\* UTF-8
MasterDirEntry_new(entry, c) ==
    IF Len(entry) < 12 THEN Panic
    ELSE IF ~Utf8Ok(Slice(entry, 12, Len(entry))) THEN Panic
    ELSE Ok([offset      |-> WordAt(entry, c, 0),
             decomp_size |-> WordAt(entry, c, 4),
             comp_size   |-> WordAt(entry, c, 8),
             name        |-> Slice(entry, 12, Len(entry))])

\* MasterDir::from_bytes, line 128-147: the entries of the table words from
\* byte index i on.  A subtraction that passes below zero panics in a debug
\* build; in a release build it wraps, and so does the sum that follows, which
\* leaves a slice whose start lies past its end: a panic too.
RECURSIVE FromBytesLoop(_, _, _, _)
FromBytesLoop(master_dir, c, i, first_section_length) ==
    IF i >= first_section_length THEN Ok(<<>>)
    ELSE IF ~SliceOk(master_dir, i, i + 4) THEN Panic
    ELSE Let([entry_offset \in {NumAt(master_dir, c, i)} |->
         IF entry_offset = 0
         THEN FromBytesLoop(master_dir, c, i + 4, first_section_length)
         ELSE IF ~SliceOk(master_dir, i + 4, i + 8) THEN Panic
         ELSE Let([next_entry_offset \in {NumAt(master_dir, c, i + 4)} |->
              Let([end \in {IF next_entry_offset = 0 THEN Len(master_dir)
                            ELSE next_entry_offset} |->
                  IF end < entry_offset THEN Panic
                  ELSE IF ~SliceOk(master_dir, entry_offset, end) THEN Panic
                  ELSE Let([entry \in {MasterDirEntry_new(
                                           Slice(master_dir, entry_offset, end), c)} |->
                           IF entry.kind # "Ok" THEN entry
                           ELSE Collect(<<entry.val>>,
                                        FromBytesLoop(master_dir, c, i + 4,
                                                      first_section_length))])])])])

\* MasterDir::from_bytes: Ok(the entries), or a panic
MasterDir_from_bytes(master_dir, c) ==
    IF ~SliceOk(master_dir, 0, 4) THEN Panic
    ELSE FromBytesLoop(master_dir, c, 0, NumAt(master_dir, c, 0))

\* MasterDirEntry::size
MasterDirEntry_size(entry) == 12 + Len(entry.name) + 1

\* MasterDirEntry::padded_size
MasterDirEntry_padded_size(entry) ==
    MasterDirEntry_size(entry) + (MasterDirEntry_size(entry) % 4)

\* MasterDirEntry::padded: the three fields, the name, a NUL and the padding
MasterDirEntry_padded(entry, c) ==
    write_u32(c, entry.offset) \o write_u32(c, entry.decomp_size)
        \o write_u32(c, entry.comp_size) \o entry.name \o <<0>>
        \o [i \in 1..(MasterDirEntry_padded_size(entry) - MasterDirEntry_size(entry))
               |-> 0]

\* MasterDir::write, line 194-197: the offsets after the first, one for every
\* entry, each the one before plus the padded size of the entry
RECURSIVE WriteOffsets(_, _, _, _)
WriteOffsets(entries, c, k, offset) ==
    IF k > Len(entries) THEN <<>>
    ELSE write_u32(c, W(offset + MasterDirEntry_padded_size(entries[k])))
             \o WriteOffsets(entries, c, k + 1,
                             offset + MasterDirEntry_padded_size(entries[k]))

\* MasterDir::write, line 203-205
RECURSIVE WriteEntries(_, _, _)
WriteEntries(entries, c, k) ==
    IF k > Len(entries) THEN <<>>
    ELSE MasterDirEntry_padded(entries[k], c) \o WriteEntries(entries, c, k + 1)

\* MasterDir::write: the bytes the file receives, every write_all succeeding
MasterDir_write(entries, c) ==
    write_u32(c, W((Len(entries) + 2) * 4))
        \o WriteOffsets(entries, c, 1, (Len(entries) + 2) * 4)
        \o <<0, 0, 0, 0>>
        \o WriteEntries(entries, c, 1)


-----------------------------------------------------------------------------
(* src/src/master_dat.rs.  A MasterDat is the record [files, entries]:      *)
(* `files` the HashMap from a path to the compressed bytes of the file,     *)
(* `entries` the entries of its MasterDir.  The sizes of the model stay far *)
(* below 2^32: no cast to u32 truncates and no sum of offsets overflows.    *)

\* name.trim_end_matches(char::from(0))
RECURSIVE trim_end_matches(_)
trim_end_matches(name) ==
    IF name # <<>> /\ name[Len(name)] = 0
    THEN trim_end_matches(SubSeq(name, 1, Len(name) - 1))
    ELSE name

\* padded_size
padded_size(size) == size + (2048 - (size % 2048))

\* HashMap::insert
Insert(files, path, file) ==
    [p \in (DOMAIN files) \cup {path} |-> IF p = path THEN file ELSE files[p]]

\* MasterDat::new
MasterDat_new == [files |-> <<>>, entries |-> <<>>]

\* MasterDat::from_bytes, the loop from entry k on: the slice of an entry
\* that reaches past the end of master_dat panics
RECURSIVE MasterDatLoad(_, _, _, _)
MasterDatLoad(master_dat, entries, k, files) ==
    IF k > Len(entries) THEN Ok([files |-> files, entries |-> entries])
    ELSE Let([o \in {Usize(entries[k].offset)},
              size \in {Usize(entries[k].comp_size)} |->
             IF ~SliceOk(master_dat, o, o + size) THEN Panic
             ELSE MasterDatLoad(master_dat, entries, k + 1,
                                Insert(files, trim_end_matches(entries[k].name),
                                       Slice(master_dat, o, o + size)))])

MasterDat_from_bytes(master_dat, entries) == MasterDatLoad(master_dat, entries, 1, <<>>)

\* the fold of add_file: the sum of the padded sizes of the files at `paths`
RECURSIVE PaddedSum(_, _)
PaddedSum(files, paths) ==
    IF paths = {} THEN 0
    ELSE LET p == CHOOSE q \in paths : TRUE IN
         padded_size(Len(files[p])) + PaddedSum(files, paths \ {p})

\* MasterDat::add_file
add_file(md, path, data) ==
    Let([compressed \in {compress(data)} |->
        [files   |-> Insert(md.files, path, compressed),
         entries |-> Append(md.entries,
                            [offset      |-> W(PaddedSum(md.files, DOMAIN md.files)),
                             decomp_size |-> W(Len(data)),
                             comp_size   |-> W(Len(compressed)),
                             name        |-> path])]])

\* MasterDat::decompressed_file: None, Ok(the bytes), or the panic of
\* decompress
decompressed_file(md, path) ==
    IF path \in DOMAIN md.files THEN decompress(md.files[path]) ELSE NoResult

\* update_file, line 266-270: every offset is the sum of the padded sizes
\* before it
RECURSIVE Reoffset(_, _, _)
Reoffset(entries, k, total_size) ==
    IF k > Len(entries) THEN <<>>
    ELSE <<[entries[k] EXCEPT !.offset = W(total_size)]>>
             \o Reoffset(entries, k + 1,
                         total_size + padded_size(Usize(entries[k].comp_size)))

\* update_file, line 256-271: the first entry named `path` gets the new
\* compressed size, then all offsets are redone
Resized(entries, path, size) ==
    LET found == {k \in DOMAIN entries : trim_end_matches(entries[k].name) = path} IN
    IF found = {} THEN entries
    ELSE LET e == CHOOSE k \in found : \A j \in found : k <= j IN
         Reoffset([entries EXCEPT ![e].comp_size = W(size)], 1, 0)

\* update_file that measures the stored, compressed bytes in place of the
\* decompressed file: the length check must tell it from update_file
update_file_stored_length(md, path, data) ==
    Let([existing_length \in {IF path \in DOMAIN md.files
                              THEN Len(md.files[path]) ELSE 0} |->
        IF Len(data) # existing_length
        THEN [result |-> Err(existing_length), md |-> md]
        ELSE Let([compressed \in {compress(data)} |->
                 [result |-> Ok(<<>>),
                  md |-> [files   |-> Insert(md.files, path, compressed),
                          entries |-> Resized(md.entries, path, Len(compressed))]]])])

\* MasterDat::update_file: the result and the MasterDat it leaves
update_file(md, path, data) ==
    Let([f \in {decompressed_file(md, path)} |->
        IF f.kind = "Panic" THEN [result |-> Panic, md |-> md]
        ELSE Let([existing_length \in {IF f.kind = "Ok" THEN Len(f.val) ELSE 0} |->
             IF Len(data) # existing_length
             THEN [result |-> Err(existing_length), md |-> md]
             ELSE Let([compressed \in {compress(data)} |->
                      [result |-> Ok(<<>>),
                       md |-> [files   |-> Insert(md.files, path, compressed),
                               entries |-> Resized(md.entries, path,
                                                   Len(compressed))]]])])])

\* pad: the data, then "SHAB" over and over up to the padded size
pad(data) ==
    data \o [i \in 1..(padded_size(Len(data)) - Len(data)) |->
                <<83, 72, 65, 66>>[((i - 1) % 4) + 1]]

\* MasterDat::to_bytes, the MASTER.DAT half, from entry k on: the padded file
\* of every entry, in directory order; an entry without a file panics
RECURSIVE ToBytesLoop(_, _, _)
ToBytesLoop(md, k, master_dat_bytes) ==
    IF k > Len(md.entries) THEN Ok(master_dat_bytes)
    ELSE Let([trimmed \in {trim_end_matches(md.entries[k].name)} |->
             IF trimmed \notin DOMAIN md.files THEN Panic
             ELSE ToBytesLoop(md, k + 1, master_dat_bytes \o pad(md.files[trimmed]))])

MasterDat_to_bytes(md) == ToBytesLoop(md, 1, <<>>)

-----------------------------------------------------------------------------
(* The .bin files the container is opened on.  Offsets are file offsets,    *)
(* relative to the end of the 0x40-byte header, as the game stores them.    *)

\* n bytes of filler, none of them zero
Fill(n, seed) == [i \in 1..n |-> ((i * 37 + seed * 11) % 251) + 1]

Zeros(n) == [i \in 1..n |-> 0]

\* the bytes placed at index `at` of s
Put(s, at, bytes) == Splice(s, at, at + Len(bytes), bytes)

\* the scalar reads of class T; none for the classes kept as bytes
ReadTable(T) ==
    CASE T = "AttackMoveType" -> AttackMoveTypeReads
      [] T = "AttackMoveRegion" -> AttackMoveRegionReads
      [] T = "ProjectileType" -> ProjectileTypeReads
      [] T = "PhysicsFighting" -> PhysicsFightingReads
      [] T = "GameWorld" -> GameWorldReads
      [] T = "Spitter" -> SpitterReads
      [] T = "SpitterKeyframe" -> SpitterKeyframeReads
      [] OTHER -> <<>>

\* a serialised object of class T: its hash, then size(T) - 4 bytes of data;
\* the bytes read as flags are stored as 0 or 1
Object(T, c, seed) ==
    LET table == ReadTable(T)
        body == [i \in 1..ClassSize(T) |->
                    LET flags == {k \in DOMAIN table :
                                     table[k][3] = "bool" /\ table[k][2] = i - 1} IN
                    IF flags = {} THEN Fill(ClassSize(T), seed)[i]
                    ELSE ((CHOOSE k \in flags : TRUE) + seed) % 2] IN
    Put(body, 0, write_u32(c, ClassHash(T)))

\* a serialised object of a class outside the codecs: a hash and 12 bytes
Foreign(hash, c, seed) == Put(Fill(16, seed), 0, write_u32(c, hash))

\* "Game::RotationObject": in the registry, without a codec
RotationObjectHash == <<194, 57, 225, 171>>

\* a hash outside the registry
UnregisteredHash == <<222, 173, 190, 239>>

\* a NUL-terminated ISO 8859-1 string
CStr(chars) == chars \o <<0>>

Fast1Atk == <<70, 97, 115, 116, 49, 65, 116, 107>>
Physics == <<80, 104, 121, 115, 105, 99, 115>>
Sword == <<83, 119, 111, 114, 100>>
Spin == <<83, 112, 105, 110>>
ShrekFast1 == <<115, 104, 114, 101, 107, 95, 102, 97, 115, 116, 49>>
Spit == <<83, 112, 105, 116>>
World == <<87, 111, 114, 108, 100>>

\* one 16-byte entry of a gf::DB: name offset, object offset, 8 more bytes
DbEntry(c, name_offset, object_offset) ==
    write_u32(c, W(name_offset)) \o write_u32(c, W(object_offset)) \o Fill(8, 5)

\* a list of u32
RECURSIVE Words(_, _)
Words(c, ns) == IF ns = <<>> THEN <<>> ELSE write_u32(c, W(ns[1])) \o Words(c, Tail(ns))

\* the pieces placed one after the other: each is <<file offset, bytes>>
RECURSIVE PutAll(_, _)
PutAll(s, pieces) ==
    IF pieces = <<>> THEN s
    ELSE PutAll(Put(s, pieces[1][1], pieces[1][2]), Tail(pieces))

\* the header, the data, then the section descriptors, the dependencies, the
\* fourth table and the pointer lists of the sections, as Bin::new lays them out
BinFile(c, data, pointers) ==
    LET header == PutAll(Zeros(header_length),
                         << <<16, write_u32(c, W(Len(data)))>>,
                            <<24, write_u32(c, W(2))>>,
                            <<36, write_u32(c, W(1))>>,
                            <<44, write_u32(c, W(1))>> >>) IN
    header \o data
           \o write_u32(c, W(1)) \o write_u32(c, W(Len(pointers))) \o Zeros(8)
           \o write_u32(c, W(2)) \o write_u32(c, W(1)) \o Zeros(8)
           \o Fill(128, 1) \o Fill(64, 2)
           \o Words(c, pointers) \o Words(c, <<0>>)

\* a player.db.bin: an attack with two hitboxes and a projectile, the physics,
\* a weapon, an object without a codec and an object of an unregistered class;
\* the gf::DB lists `entries` of its four entries
PlayerData(c, entries) ==
    PutAll(Zeros(4768),
        << <<0, Put(Put(Object("GfDb", c, 1), 20, write_u32(c, W(48))),
                    24, write_u32(c, W(entries)))>>,
           <<48, DbEntry(c, 112, 432) \o DbEntry(c, 121, 1040)
                 \o DbEntry(c, 129, 4448) \o DbEntry(c, 135, 4736)>>,
           <<112, CStr(Fast1Atk) \o CStr(Physics) \o CStr(Sword) \o CStr(Spin)
                  \o CStr(ShrekFast1)>>,
           <<160, Words(c, <<176, 240>>)>>,
           <<176, Object("AttackMoveRegion", c, 2)>>,
           <<240, Object("AttackMoveRegion", c, 3)>>,
           <<304, Object("ProjectileType", c, 4)>>,
           <<432, PutAll(Object("AttackMoveType", c, 5),
                         << <<32, write_u32(c, W(160))>>, <<36, write_u32(c, W(2))>>,
                            <<40, write_u32(c, W(140))>>, <<156, write_u32(c, W(304))>> >>)>>,
           <<1040, Object("PhysicsFighting", c, 6)>>,
           <<4448, Object("WeaponType", c, 7)>>,
           <<4736, Foreign(RotationObjectHash, c, 8)>>,
           <<4752, Foreign(UnregisteredHash, c, 9)>> >>)

PlayerPointers == <<0, 176, 240, 304, 432, 1040, 4448, 4736>>

\* a level .db.bin: a spitter with two keyframes, the first with an event
\* sequence
LevelData(c) ==
    PutAll(Zeros(928),
        << <<0, Put(Put(Object("GfDb", c, 1), 20, write_u32(c, W(48))),
                    24, write_u32(c, W(1)))>>,
           <<48, DbEntry(c, 80, 704)>>,
           <<80, CStr(Spit)>>,
           <<112, Words(c, <<128, 384>>)>>,
           <<128, Put(Object("SpitterKeyframe", c, 2), 188, write_u32(c, W(640)))>>,
           <<384, Put(Object("SpitterKeyframe", c, 3), 188, write_u32(c, W(0)))>>,
           <<640, Put(Put(Object("EventSequence", c, 4), 4, write_u32(c, W(688))),
                      8, write_u32(c, W(2)))>>,
           <<688, Words(c, <<16, 32>>)>>,
           <<704, Put(Put(Object("Spitter", c, 5), 32, write_u32(c, W(112))),
                      36, write_u32(c, W(2)))>> >>)

LevelPointers == <<0, 128, 384, 640, 704>>

\* a level .db.bin that holds the game world
WorldData(c) ==
    PutAll(Zeros(46208),
        << <<0, Put(Put(Object("GfDb", c, 1), 20, write_u32(c, W(48))),
                    24, write_u32(c, W(1)))>>,
           <<48, DbEntry(c, 64, 80)>>,
           <<64, CStr(World)>>,
           <<80, Object("GameWorld", c, 6)>> >>)

WorldPointers == <<0, 80>>

\* a file of three objects with four sections, each <<kind, pointers>>, two
\* dependencies and one entry of the fourth table; the sections of kind 2 and 3
\* list objects too
TablesSections ==
    << <<2, <<16, 32>> >>, <<1, <<32, 0>> >>, <<3, <<0>> >>, <<1, <<16>> >> >>

RECURSIVE Descriptors(_, _)
Descriptors(c, sections) ==
    IF sections = <<>> THEN <<>>
    ELSE write_u32(c, W(sections[1][1])) \o write_u32(c, W(Len(sections[1][2])))
             \o Zeros(8) \o Descriptors(c, Tail(sections))

RECURSIVE PointerTables(_, _)
PointerTables(c, sections) ==
    IF sections = <<>> THEN <<>>
    ELSE Words(c, sections[1][2]) \o PointerTables(c, Tail(sections))

TablesFile(c) ==
    PutAll(Zeros(header_length),
           << <<16, write_u32(c, W(48))>>,
              <<24, write_u32(c, W(Len(TablesSections)))>>,
              <<36, write_u32(c, W(2))>>,
              <<44, write_u32(c, W(1))>> >>)
        \o Foreign(RotationObjectHash, c, 1) \o Foreign(RotationObjectHash, c, 2)
        \o Foreign(RotationObjectHash, c, 3)
        \o Descriptors(c, TablesSections)
        \o Fill(256, 1) \o Fill(64, 2)
        \o PointerTables(c, TablesSections)

\* a file without sections that holds "Spit", a NUL and "Spin", and ends there
TextFile == Zeros(header_length) \o CStr(Spit) \o Spin

\* the player file with a projectile in the place of the attack's second hitbox
MixedData(c) == Put(PlayerData(c, 3), 160, Words(c, <<176, 304>>))

\* the player file with an object of 16 bytes right before the first hitbox,
\* in the place of the attack's pointer table, which moves to 96
PackedData(c) ==
    PutAll(PlayerData(c, 3),
        << <<96, Words(c, <<176, 240>>)>>,
           <<160, Foreign(RotationObjectHash, c, 8)>>,
           <<432 + 32, write_u32(c, W(96))>> >>)

PackedPointers == <<0, 160, 176, 240, 304, 432, 1040, 4448, 4736>>

Files == {"player", "player4", "unregistered", "level", "world", "cut", "stub",
          "beyond", "tables", "text", "mixed", "packed"}

\* the files: whole ones, one whose gf::DB lists the object without a codec,
\* one whose pointer list names the unregistered object, one that ends inside
\* its last object, one shorter than a header, a bare header that counts
\* one section descriptor, the file of four sections, the file of text, the
\* file whose attack lists an object that is no hitbox and the file with an
\* object right before a hitbox
File(which, c) ==
    CASE which = "player" -> BinFile(c, PlayerData(c, 3), PlayerPointers)
      [] which = "player4" -> BinFile(c, PlayerData(c, 4), PlayerPointers)
      [] which = "unregistered" ->
             BinFile(c, PlayerData(c, 3), PlayerPointers \o <<4752>>)
      [] which = "level" -> BinFile(c, LevelData(c), LevelPointers)
      [] which = "world" -> BinFile(c, WorldData(c), WorldPointers)
      [] which = "cut" -> Zeros(header_length) \o SubSeq(Object("WeaponType", c, 7), 1, 256)
      [] which = "stub" -> Zeros(32)
      [] which = "beyond" -> Put(Zeros(header_length), 24, write_u32(c, W(1)))
      [] which = "tables" -> TablesFile(c)
      [] which = "text" -> TextFile
      [] which = "mixed" -> BinFile(c, MixedData(c), PlayerPointers)
      [] which = "packed" -> BinFile(c, PackedData(c), PackedPointers)

-----------------------------------------------------------------------------
(* The caller: a file is opened, an object is read, changed and written     *)
(* back, the directory is parsed, stubs are resolved                        *)

\* number of typed reads in a session
MaxReads == 1
\* number of overwrite_object calls in a session
MaxWrites == 2
\* number of value patterns the caller assigns to an object's fields
NumSeeds == 1

\* the typed reads the caller makes: <<class, file offset>>
Requests ==
    { <<"GfDb", 0>>, <<"AttackMoveRegion", 176>>, <<"AttackMoveRegion", 240>>,
      <<"ProjectileType", 304>>, <<"AttackMoveType", 432>>,
      <<"PhysicsFighting", 1040>>, <<"WeaponType", 4448>>, <<"WeaponType", 4736>>,
      <<"PhysicsFighting", 4448>>, <<"SpitterKeyframe", 128>>,
      <<"SpitterKeyframe", 384>>, <<"EventSequence", 640>>, <<"Spitter", 704>>,
      <<"GameWorld", 80>>, <<"WeaponType", 0>>, <<"WeaponType", 48>>,
      <<"AttackMoveRegion", 254>> }

\* the file offsets the caller writes to besides the one the object came from
OtherOffsets == {0, 240, 1040}

\* the file offsets the caller resolves stubs at
StubOffsets == {0, 432, 704, 1040, 4448, 4736, 4752}

NoObject == [obj |-> [class |-> "None"], from |-> 0, fresh |-> FALSE]

\* the value the caller assigns to field i of a table
NewValue(t, i, seed) ==
    CASE t \in {"f32", "u32"} ->
             <<(seed * 31 + i) % 256, (i * 7 + 1) % 256, (seed + i * 3) % 256, i % 256>>
      [] t = "bool" -> (i + seed) % 2 = 1
      [] t = "u8" -> (i * 5 + seed) % 256
      [] t = "i8" -> ((i * 5 + seed) % 256) - 128

\* object.field = value, for every scalar field
Assigned(object, seed) ==
    LET table == ReadTable(object.class) IN
    [object EXCEPT !.f = [n \in DOMAIN @ |->
        LET i == CHOOSE j \in DOMAIN table : table[j][1] = n IN
        NewValue(table[i][3], i, seed)]]

\* the caller changes the public fields of the object and of its children
Modified(object, seed) ==
    CASE object.class = "AttackMoveType" ->
             [Assigned(object, seed) EXCEPT
                 !.hitboxes = [k \in DOMAIN @ |-> Assigned(@[k], seed + k)],
                 !.projectile = [k \in DOMAIN @ |-> Assigned(@[k], seed + 3)]]
      [] object.class = "Spitter" ->
             [Assigned(object, seed) EXCEPT
                 !.keyframes = [k \in DOMAIN @ |-> Assigned(@[k], seed + k)]]
      [] OTHER -> Assigned(object, seed)

\* the object after serde's Serialize then Deserialize: the fields marked
\* #[serde(skip)] come back as their defaults
Deserialised(object) ==
    CASE object.class = "AttackMoveType" ->
             [object EXCEPT !.hitbox_offsets = <<>>, !.projectile_offset = <<>>]
      [] object.class = "Spitter" ->
             [object EXCEPT !.keyframe_offsets = <<>>,
                            !.keyframes = [k \in DOMAIN @ |->
                                              [@[k] EXCEPT !.event = <<>>]]]
      [] object.class = "SpitterKeyframe" -> [object EXCEPT !.event = <<>>]
      [] OTHER -> object

Bin == [raw |-> bin_raw, console |-> bin_console]

CodecIdle == cPc = "idle" /\ cInput = <<>> /\ cStream = <<>> /\ cOutput = NoResult

Init ==
    /\ CodecIdle
    /\ OthersIdle
    /\ phase = "bytes"
    /\ bin_console \in Consoles
    /\ \E which \in Files : bin_raw = File(which, bin_console)
    /\ bin_objects = <<>>
    /\ parsed_len = 0
    /\ held = NoObject
    /\ last = [op |-> "none"]
    /\ calls = [reads |-> 0, writes |-> 0]

\* Bin::new(raw, console)
BinNew ==
    /\ phase = "bytes"
    /\ \E build \in Builds :
         \E r \in {Bin_new(bin_raw, bin_console, build)} :
            /\ phase' = CASE r.kind = "Ok" -> "open"
                          [] r.kind = "Err" -> "failed"
                          [] OTHER -> "aborted"
            /\ bin_objects' = IF r.kind = "Ok" THEN r.val ELSE <<>>
            /\ last' = [op |-> "new",
                        result |-> IF r.kind = "Ok" THEN Ok(Len(r.val)) ELSE r]
    /\ parsed_len' = Len(bin_raw)
    /\ UNCHANGED <<codecVars, otherVars, bin_raw, bin_console, held, calls>>

\* bin.get_object_from_offset::<T>(offset)
GetObjectFromOffset ==
    /\ phase = "open"
    /\ calls.reads < MaxReads
    /\ \E request \in Requests :
         \E r \in {get_object_from_offset(Bin, request[1], request[2])} :
            /\ phase' = IF r.kind = "Panic" THEN "aborted" ELSE phase
            /\ held' = IF r.kind = "Ok"
                       THEN [obj |-> r.val, from |-> request[2], fresh |-> TRUE]
                       ELSE held
            /\ last' = [op |-> "get", class |-> request[1], offset |-> request[2],
                        result |-> r]
    /\ calls' = [calls EXCEPT !.reads = @ + 1]
    /\ UNCHANGED <<codecVars, otherVars, bin_raw, bin_console, bin_objects, parsed_len>>

\* the caller assigns to the fields of the object it holds
Modify ==
    /\ phase = "open"
    /\ held.obj.class \in WritableClasses
    /\ \E seed \in 1..NumSeeds :
         \E object \in {Modified(held.obj, seed)} :
            /\ object # held.obj
            /\ held' = [held EXCEPT !.obj = object, !.fresh = FALSE]
    /\ last' = [op |-> "modify"]
    /\ UNCHANGED <<codecVars, otherVars, phase, bin_raw, bin_console, bin_objects, parsed_len, calls>>

\* the caller serialises the object it holds and deserialises it again
Deserialise ==
    /\ phase = "open"
    /\ held.obj.class \in WritableClasses
    /\ \E object \in {Deserialised(held.obj)} :
         /\ object # held.obj
         /\ held' = [held EXCEPT !.obj = object, !.fresh = FALSE]
    /\ last' = [op |-> "deserialise"]
    /\ UNCHANGED <<codecVars, otherVars, phase, bin_raw, bin_console, bin_objects, parsed_len, calls>>

\* the nested elements of an object: its hitboxes or its keyframes
Children(object) ==
    CASE object.class = "AttackMoveType" -> object.hitboxes
      [] object.class = "Spitter" -> object.keyframes
      [] OTHER -> <<>>

\* the object with other nested elements
WithChildren(object, children) ==
    CASE object.class = "AttackMoveType" -> [object EXCEPT !.hitboxes = children]
      [] object.class = "Spitter" -> [object EXCEPT !.keyframes = children]

\* the caller takes the last element off the object it has just read:
\* attack.hitboxes.pop(), spitter.keyframes.pop()
PopChild ==
    /\ phase = "open"
    /\ held.fresh
    /\ Children(held.obj) # <<>>
    /\ held' = [held EXCEPT
                   !.obj = WithChildren(@, SubSeq(Children(@), 1, Len(Children(@)) - 1)),
                   !.fresh = FALSE]
    /\ last' = [op |-> "pop"]
    /\ UNCHANGED <<codecVars, otherVars, phase, bin_raw, bin_console, bin_objects, parsed_len, calls>>

\* the caller appends an element to the object it has just read: a hitbox or
\* keyframe with the fields of the first
PushChild ==
    /\ phase = "open"
    /\ held.fresh
    /\ Children(held.obj) # <<>>
    /\ held' = [held EXCEPT
                   !.obj = WithChildren(@, Append(Children(@), Children(@)[1])),
                   !.fresh = FALSE]
    /\ last' = [op |-> "push"]
    /\ UNCHANGED <<codecVars, otherVars, phase, bin_raw, bin_console, bin_objects, parsed_len, calls>>
\* the byte range <<first index, end index>> of an object of class T at file
\* offset `offset`
RangeOf(T, offset) == <<offset + header_length, offset + header_length + ClassSize(T)>>

\* the ranges of the objects of class T at the file offsets of a list
RangesOf(T, list) ==
    IF list.kind = "Ok" THEN {RangeOf(T, Usize(list.val[k])) : k \in DOMAIN list.val}
    ELSE {}

\* the byte ranges a write of an object of class T at file offset `offset` is
\* meant to reach: the object, and its hitboxes, projectile or keyframes at
\* their relocated offsets
Frame(raw, c, T, offset) ==
    {RangeOf(T, offset)}
    \cup (IF T = "AttackMoveType"
          THEN RangesOf("AttackMoveRegion",
                        hitbox_offsets(raw, offset + header_length, c))
          ELSE {})
    \cup (IF T = "AttackMoveType"
             /\ SliceOk(raw, offset + header_length + 156, offset + header_length + 160)
             /\ NumAt(raw, c, offset + header_length + 156) # 0
          THEN {RangeOf("ProjectileType", NumAt(raw, c, offset + header_length + 156))}
          ELSE {})
    \cup (IF T = "Spitter"
          THEN RangesOf("SpitterKeyframe",
                        keyframe_offsets(raw, offset + header_length, c))
          ELSE {})

\* bin.overwrite_object(offset, &object)
OverwriteObject ==
    /\ phase = "open"
    /\ held.obj.class \in WritableClasses
    /\ calls.writes < MaxWrites
    /\ \E offset \in {held.from} \cup OtherOffsets, build \in Builds :
         \E w \in {overwrite_object(Bin, offset, held.obj, build)} :
            /\ bin_raw' = w.raw
            /\ phase' = IF w.kind = "Panic" THEN "aborted" ELSE phase
            /\ last' = [op |-> "overwrite", offset |-> offset, object |-> held.obj,
                        unmodified |-> held.fresh /\ offset = held.from,
                        result |-> IF w.kind = "Err" THEN Err(w.err)
                                   ELSE [kind |-> w.kind],
                        found |-> IF SliceOk(bin_raw, offset + header_length,
                                             offset + header_length + 4)
                                  THEN <<WordAt(bin_raw, bin_console,
                                                offset + header_length)>>
                                  ELSE <<>>,
                        before |-> bin_raw,
                        changed |-> Changed(bin_raw, w.raw),
                        frame |-> Frame(bin_raw, bin_console, held.obj.class, offset)]
    /\ held' = [held EXCEPT !.fresh = FALSE]
    /\ calls' = [calls EXCEPT !.writes = @ + 1]
    /\ UNCHANGED <<codecVars, otherVars, bin_console, bin_objects, parsed_len>>

\* bin.parse()
Parse ==
    /\ phase = "open"
    /\ calls = [reads |-> 0, writes |-> 0]
    /\ \E r \in {parse(Bin)} :
         /\ phase' = IF r.kind = "Panic" THEN "aborted" ELSE phase
         /\ last' = [op |-> "parse", result |-> r]
    /\ UNCHANGED <<codecVars, otherVars, bin_raw, bin_console, bin_objects, parsed_len, held, calls>>

\* BinObject::new(&raw, offset, console), then bin.resolve_object(&stub)
ResolveStub ==
    /\ phase = "open"
    /\ calls = [reads |-> 0, writes |-> 0]
    /\ \E offset \in StubOffsets :
         \E stub \in {BinObject_new(bin_raw, W(offset), bin_console)} :
            \E r \in {IF stub.kind = "Ok" THEN resolve_object(Bin, stub.val)
                      ELSE stub} :
               /\ phase' = IF r.kind = "Panic" THEN "aborted" ELSE phase
               /\ last' = [op |-> "resolve", offset |-> offset, stub |-> stub,
                           result |-> r]
    /\ UNCHANGED <<codecVars, otherVars, bin_raw, bin_console, bin_objects, parsed_len, held, calls>>

\* the file offsets the caller reads strings at: names of the directories, the
\* strings of the file of text, the end of that file and past it
StrOffsets == {0, 2, 4, 5, 9, 10, 112, 121}

\* bin.get_str_from_offset(offset)
GetStr ==
    /\ phase = "open"
    /\ calls = [reads |-> 0, writes |-> 0]
    /\ \E offset \in StrOffsets :
         \E r \in {get_str_from_offset(Bin, W(offset))} :
            /\ phase' = IF r.kind = "Panic" THEN "aborted" ELSE phase
            /\ last' = [op |-> "get_str", offset |-> offset, result |-> r]
    /\ UNCHANGED <<codecVars, otherVars, bin_raw, bin_console, bin_objects, parsed_len, held, calls>>

Next ==
    \/ BinNew
    \/ GetObjectFromOffset
    \/ Modify
    \/ Deserialise
    \/ PopChild
    \/ PushChild
    \/ OverwriteObject
    \/ Parse
    \/ ResolveStub
    \/ GetStr

Spec == Init /\ [][Next]_vars

-----------------------------------------------------------------------------
(* The codec pipeline: an input is compressed, the stream is decompressed  *)

\* number of max-length blocks the inputs reach
MaxBlocks == 2
\* the inputs' lengths lie within Slack of each boundary of the encoder
Slack == 1
\* number of byte patterns the inputs are filled with
NumPatterns == 3

Boundaries == {0, 29, 285} \cup {k * MAX_DISTANCE : k \in 1..MaxBlocks}

InputLengths ==
    {n \in {b + d : b \in Boundaries, d \in (0 - Slack)..Slack} : n >= 0}

PatternBytes(n, p) == [i \in 1..n |-> (i * (2 * p + 1) + 5 * p) % 256]

CodecInputs == {PatternBytes(n, p) : n \in InputLengths, p \in 1..NumPatterns}

\* no .bin file is open while the codec runs
BinIdle ==
    /\ phase = "idle"
    /\ bin_raw = <<>>
    /\ bin_console = "PC"
    /\ bin_objects = <<>>
    /\ parsed_len = 0
    /\ held = NoObject
    /\ last = [op |-> "none"]
    /\ calls = [reads |-> 0, writes |-> 0]

CodecInit ==
    /\ cPc = "input"
    /\ cInput \in CodecInputs
    /\ cStream = <<>>
    /\ cOutput = NoResult
    /\ BinIdle
    /\ OthersIdle

Compress ==
    /\ cPc = "input"
    /\ cStream' = compress(cInput)
    /\ cPc' = "compressed"
    /\ UNCHANGED <<cInput, cOutput>>
    /\ UNCHANGED <<binVars, otherVars>>

Decompress ==
    /\ cPc = "compressed"
    /\ cOutput' = decompress(cStream)
    /\ cPc' = "done"
    /\ UNCHANGED <<cInput, cStream>>
    /\ UNCHANGED <<binVars, otherVars>>

CodecNext == Compress \/ Decompress

SpecCodec == CodecInit /\ [][CodecNext]_vars


-----------------------------------------------------------------------------
(* The decoder on streams it did not write: a caller hands decompress the  *)
(* bytes of an archive entry                                               *)

\* the longest stream built from the token alphabet
MaxStream == 3

\* token bytes: the terminator and direct tokens, a literal, the one-byte and
\* the two-byte distance extensions
StreamBytes == {0, 1, 8, 65, 240, 248}

\* streams with a literal run and back-references that decode, and ones that
\* end early
LongStreams ==
    { <<8, 65, 3, 0, 0, 0>>,
      <<16, 65, 66, 10, 0, 0, 0>>,
      <<8, 65, 0, 1, 0, 0, 0, 0>>,
      <<8, 65, 11, 0, 0, 0>>,
      <<240, 1>> \o [i \in 1..31 |-> i] \o <<0, 0>>,
      <<240, 1>> \o [i \in 1..30 |-> i],
      <<8, 65, 3, 0, 0>>,
      <<8, 65, 243, 0, 0, 0>> }

\* the longest literal run, and the largest distance, of a stream with one
\* back-reference
MaxRun == 3

\* a literal run of n bytes, one back-reference token of the given length and
\* distance (the length in the token, or in the byte after it when it is above
\* 7), and the end of the stream
BackStream(n, length, distance) ==
    <<8 * n>> \o [i \in 1..n |-> 64 + i]
        \o (IF length <= 7 THEN <<8 * distance + length>>
            ELSE <<8 * distance, length - 7>>)
        \o <<0, 0, 0>>

\* distances inside and outside the literal run
BackStreams ==
    {BackStream(n, length, distance) :
        n \in 1..MaxRun, length \in 1..9, distance \in 0..MaxRun}

Streams ==
    UNION {[1..n -> StreamBytes] : n \in 0..MaxStream} \cup LongStreams
        \cup BackStreams

StreamInit ==
    /\ cPc = "compressed"
    /\ cInput = <<>>
    /\ cStream \in Streams
    /\ cOutput = NoResult
    /\ BinIdle
    /\ OthersIdle

SpecStreams == StreamInit /\ [][Decompress]_vars

-----------------------------------------------------------------------------
(* The number codec: a value is written in a console's byte order and read *)
(* back, or bytes of any length are read                                   *)

\* the longest byte sequence handed to read_u32 / read_f32
MaxBytes == 6

\* the digits of the values written: the ends of the byte range, the sign bit
\* and the exponent bits of a float (NaN, infinity, -0.0)
ValueDigits == {0, 1, 127, 128, 192, 255}

\* 0x04030201 and 0x01020304 of the tests, and every value of the digits
Values ==
    {W(67305985), W(16909060)}
        \cup {<<a, b, c, d>> : a \in ValueDigits, b \in ValueDigits,
                               c \in ValueDigits, d \in ValueDigits}

\* the bytes read: every sequence of up to MaxBytes of three byte values, and
\* data3 and too_long of the tests
ReadBytes == {0, 1, 255}

ByteInputs ==
    UNION {[1..n -> ReadBytes] : n \in 0..MaxBytes}
        \cup {<<1, 2, 3, 4>>, <<1, 2, 3, 4, 5>>}

NumInit ==
    /\ nConsole \in Consoles
    /\ \/ nPc = "input" /\ nValue \in Values /\ nBytes = <<>>
       \/ nPc = "bytes" /\ nValue = <<0, 0, 0, 0>> /\ nBytes \in ByteInputs
    /\ nResult = NoResult
    /\ CodecIdle
    /\ BinIdle
    /\ HashIdle
    /\ ArchiveIdle

numRest == <<codecVars, binVars, hashVars, archiveVars>>

\* console.write_u32(n)
WriteU32 ==
    /\ nPc = "input"
    /\ nBytes' = write_u32(nConsole, nValue)
    /\ nPc' = "written_u32"
    /\ UNCHANGED <<nConsole, nValue, nResult, numRest>>

\* console.write_f32(n)
WriteF32 ==
    /\ nPc = "input"
    /\ nBytes' = write_f32(nConsole, nValue)
    /\ nPc' = "written_f32"
    /\ UNCHANGED <<nConsole, nValue, nResult, numRest>>

\* console.read_u32(&bytes), of the bytes given or of those write_u32 returned
ReadU32 ==
    /\ nPc \in {"bytes", "written_u32"}
    /\ nResult' = read_u32(nConsole, nBytes)
    /\ nPc' = IF nPc = "bytes" THEN "read_u32" ELSE "round_u32"
    /\ UNCHANGED <<nConsole, nValue, nBytes, numRest>>

\* console.read_f32(&bytes), of the bytes given or of those write_f32 returned
ReadF32 ==
    /\ nPc \in {"bytes", "written_f32"}
    /\ nResult' = read_f32(nConsole, nBytes)
    /\ nPc' = IF nPc = "bytes" THEN "read_f32" ELSE "round_f32"
    /\ UNCHANGED <<nConsole, nValue, nBytes, numRest>>

NumNext == WriteU32 \/ WriteF32 \/ ReadU32 \/ ReadF32

SpecNum == NumInit /\ [][NumNext]_vars

-----------------------------------------------------------------------------
(* The name hash: a name is hashed                                         *)

\* the names of the tests of hash.rs: "1", "bk_cape", "shrekpuppet_shirtfrontr"
Name1 == <<49>>
NameBkCape == <<98, 107, 95, 99, 97, 112, 101>>
NameShirt ==
    <<115, 104, 114, 101, 107, 112, 117, 112, 112, 101, 116, 95, 115, 104, 105,
      114, 116, 102, 114, 111, 110, 116, 114>>

TestNames == {Name1, NameBkCape, NameShirt}

\* a name with its letters in upper case, in lower case
Upper(name) == [i \in DOMAIN name |->
                   IF name[i] >= 97 /\ name[i] <= 122 THEN name[i] - 32 ELSE name[i]]
Lower(name) == [i \in DOMAIN name |-> to_ascii_lowercase(name[i])]

\* the characters of the class name the registry pairs with a hash
CharsOf(className) ==
    ClassChars[CHOOSE i \in DOMAIN HashTable : HashTable[i][2] = className]

\* the names hashed: those of the tests and of the registry, as they are
\* written and in upper case
HashNames ==
    LET written == TestNames \cup {ClassChars[i] : i \in DOMAIN ClassChars} IN
    written \cup {Upper(name) : name \in written}

HashInit ==
    /\ hName \in HashNames
    /\ hResult = NoResult
    /\ CodecIdle
    /\ BinIdle
    /\ NumIdle
    /\ ArchiveIdle

\* hash(&name)
HashName ==
    /\ hResult = NoResult
    /\ hResult' = Ok(hash_str(hName))
    /\ UNCHANGED <<hName, codecVars, binVars, numVars, archiveVars>>

SpecHash == HashInit /\ [][HashName]_vars

-----------------------------------------------------------------------------
(* MASTER.DIR: the bytes of a directory file are parsed                     *)

\* the most entries a MASTER.DIR file of the model lists
MaxEntries == 3

\* names: "abcd" and "efgh" of the tests, and "a" padded with three NULs
NameAbcd == <<97, 98, 99, 100>>
NameEfgh == <<101, 102, 103, 104>>
NameAPadded == <<97, 0, 0, 0>>

\* the entries a file is built from: those of the tests, and one with large
\* fields
DirEntryPool ==
    { [offset |-> W(1), decomp_size |-> W(2), comp_size |-> W(3), name |-> NameAbcd],
      [offset |-> W(4), decomp_size |-> W(5), comp_size |-> W(6), name |-> NameEfgh],
      [offset |-> <<0, 0, 8, 0>>, decomp_size |-> <<1, 2, 3, 4>>,
       comp_size |-> <<255, 0, 0, 1>>, name |-> NameAPadded] }

\* the bytes of one entry
DirEntryBytes(c, e) ==
    write_u32(c, e.offset) \o write_u32(c, e.decomp_size)
        \o write_u32(c, e.comp_size) \o e.name

\* a MASTER.DIR file: the table of the entries' offsets, closed by `closing`
\* (the terminator 00 00 00 00, or nothing), then the entries, each of 16 bytes
DirBytes(c, entries, closing) ==
    LET n == Len(entries)
        table == 4 * n + Len(closing) IN
    Words(c, [k \in 1..n |-> table + 16 * (k - 1)]) \o closing
        \o [i \in 1..(16 * n) |->
               DirEntryBytes(c, entries[((i - 1) \div 16) + 1])[((i - 1) % 16) + 1]]

\* sequences of 1..MaxEntries entries of the pool
DirEntryLists == UNION {[1..n -> DirEntryPool] : n \in 1..MaxEntries}

Pooled(k) == CHOOSE e \in DirEntryPool : e.offset = W(k)

\* files that keep to the format, and files that do not: no terminator, a
\* zero in the middle of the table, an entry cut short, a name that is not
\* UTF-8, an offset past the end, a file of two bytes
DirFiles(c) ==
    {DirBytes(c, entries, Zeros(4)) : entries \in DirEntryLists}
        \cup { DirBytes(c, <<Pooled(1), Pooled(4)>>, <<>>),
               DirBytes(c, <<Pooled(4), Pooled(1)>>, <<>>),
               Words(c, <<16, 0, 32, 0>>) \o DirEntryBytes(c, Pooled(1))
                   \o DirEntryBytes(c, Pooled(4)),
               SubSeq(DirBytes(c, <<Pooled(1), Pooled(4)>>, Zeros(4)), 1, 38),
               Put(DirBytes(c, <<Pooled(1)>>, Zeros(4)), 21, <<255>>),
               Words(c, <<8, 0>>) \o Words(c, <<64, 0>>),
               Words(c, <<12, 64, 0>>) \o DirEntryBytes(c, Pooled(1)),
               <<8, 0>> }

DirInit ==
    /\ aPc = "bytes"
    /\ dir_console \in Consoles
    /\ dir_bytes \in DirFiles(dir_console)
    /\ dir_entries = <<>>
    /\ dat_files = <<>>
    /\ aLast = [op |-> "none"]
    /\ CodecIdle
    /\ BinIdle
    /\ NumIdle
    /\ HashIdle

archiveRest == <<codecVars, binVars, numVars, hashVars>>

\* MasterDir::from_bytes(&master_dir, console)
MasterDirFromBytes ==
    /\ aPc = "bytes"
    /\ \E r \in {MasterDir_from_bytes(dir_bytes, dir_console)} :
         /\ aPc' = IF r.kind = "Ok" THEN "open" ELSE "aborted"
         /\ dir_entries' = IF r.kind = "Ok" THEN r.val ELSE <<>>
         /\ aLast' = [op |-> "from_bytes", result |-> [kind |-> r.kind]]
    /\ UNCHANGED <<dir_bytes, dir_console, dat_files, archiveRest>>

\* master_dir.write(path), the file then being the bytes to parse; aLast keeps
\* the entries written
MasterDirWrite ==
    /\ aPc = "open"
    /\ dir_bytes' = MasterDir_write(dir_entries, dir_console)
    /\ aPc' = "bytes"
    /\ aLast' = [op |-> "write", entries |-> dir_entries]
    /\ UNCHANGED <<dir_console, dir_entries, dat_files, archiveRest>>

DirNext == MasterDirFromBytes \/ MasterDirWrite

SpecDir == DirInit /\ [][DirNext]_vars

-----------------------------------------------------------------------------
(* MASTER.DAT: an archive is made or loaded, files are added and updated   *)

\* the most entries add_file is let to bring the directory to
MaxFiles == 2

\* the paths "a" and "b"
PathA == <<97>>
PathB == <<98>>
Paths == {PathA, PathB}

\* the data of the calls: empty, two of one length, one of another
Datas == {<<>>, <<1, 2, 3, 4>>, <<5, 6, 7, 8>>, <<9, 9>>}

\* MASTER.DAT / MASTER.DIR pairs to load: "a" (its name padded with NULs) is
\* a stream with a back-reference and "b" a stream that ends early; a pair
\* whose entry reaches past the end of the MASTER.DAT
StoredArchives ==
    { [dat     |-> <<8, 65, 3, 0, 0, 0, 8, 65, 3, 0, 0>>,
       entries |-> <<[offset |-> W(0), decomp_size |-> W(5), comp_size |-> W(6),
                      name |-> NameAPadded],
                     [offset |-> W(6), decomp_size |-> W(5), comp_size |-> W(5),
                      name |-> PathB]>>],
      [dat     |-> <<0, 0, 0>>,
       entries |-> <<[offset |-> W(0), decomp_size |-> W(0), comp_size |-> W(4),
                      name |-> PathA]>>] }

ArchiveInit ==
    /\ aPc = "closed"
    /\ dir_console \in Consoles
    /\ dir_bytes = <<>>
    /\ dir_entries = <<>>
    /\ dat_files = <<>>
    /\ aLast = [op |-> "none"]
    /\ CodecIdle
    /\ BinIdle
    /\ NumIdle
    /\ HashIdle

\* MasterDat::new(console); aPc tells an archive made empty from a loaded one
MasterDatNew ==
    /\ aPc = "closed"
    /\ aPc' = "made"
    /\ dat_files' = MasterDat_new.files
    /\ dir_entries' = MasterDat_new.entries
    /\ aLast' = [op |-> "new"]
    /\ UNCHANGED <<dir_bytes, dir_console, archiveRest>>

\* MasterDat::from_bytes(&master_dat, master_dir)
MasterDatFromBytes ==
    /\ aPc = "closed"
    /\ \E stored \in StoredArchives :
         \E r \in {MasterDat_from_bytes(stored.dat, stored.entries)} :
            /\ aPc' = IF r.kind = "Ok" THEN "open" ELSE "aborted"
            /\ dat_files' = IF r.kind = "Ok" THEN r.val.files ELSE <<>>
            /\ dir_entries' = IF r.kind = "Ok" THEN r.val.entries ELSE <<>>
            /\ aLast' = [op |-> "from_bytes", result |-> [kind |-> r.kind]]
    /\ UNCHANGED <<dir_bytes, dir_console, archiveRest>>

\* master_dat.add_file(path, data)
AddFile ==
    /\ aPc \in {"open", "made"}
    /\ Len(dir_entries) < MaxFiles
    /\ \E path \in Paths, data \in Datas :
         \E md \in {add_file([files |-> dat_files, entries |-> dir_entries],
                             path, data)} :
            /\ dat_files' = md.files
            /\ dir_entries' = md.entries
            /\ aLast' = [op |-> "add_file", path |-> path, data |-> data]
    /\ UNCHANGED <<aPc, dir_bytes, dir_console, archiveRest>>

\* master_dat.update_file(path, data); aLast keeps the MasterDat of before
UpdateFile ==
    /\ aPc \in {"open", "made"}
    /\ \E path \in Paths, data \in Datas :
         \E r \in {update_file([files |-> dat_files, entries |-> dir_entries],
                               path, data)} :
            /\ aPc' = IF r.result.kind = "Panic" THEN "aborted" ELSE aPc
            /\ dat_files' = r.md.files
            /\ dir_entries' = r.md.entries
            /\ aLast' = [op |-> "update_file", path |-> path, data |-> data,
                         result |-> r.result,
                         before |-> [files |-> dat_files, entries |-> dir_entries]]
    /\ UNCHANGED <<dir_bytes, dir_console, archiveRest>>

\* master_dat.to_bytes(): the MASTER.DAT bytes
ToBytes ==
    /\ aPc \in {"open", "made"}
    /\ \E r \in {MasterDat_to_bytes([files |-> dat_files, entries |-> dir_entries])} :
         /\ aPc' = IF r.kind = "Panic" THEN "aborted" ELSE aPc
         /\ aLast' = [op |-> "to_bytes", result |-> r]
    /\ UNCHANGED <<dir_bytes, dir_console, dir_entries, dat_files, archiveRest>>

ArchiveNext == MasterDatNew \/ MasterDatFromBytes \/ AddFile \/ UpdateFile \/ ToBytes

SpecArchive == ArchiveInit /\ [][ArchiveNext]_vars
-----------------------------------------------------------------------------
(* C1: compression round trip: for every input x, decompress(compress(x))  *)
(* returns exactly x.                                                      *)
C1_RoundTrip ==
    cPc = "done" => cOutput = Ok(cInput)

\* the round trip as it holds: every input whose final chunk is shorter than
\* MAX_DISTANCE comes back unchanged
C1_RoundTripBelowMax ==
    (cPc = "done" /\ Len(cInput) % MAX_DISTANCE # 0) => cOutput = Ok(cInput)


-----------------------------------------------------------------------------
(* C2: write idempotence: an object read with get_object_from_offset and   *)
(* written back unmodified with overwrite_object at the same offset leaves *)
(* every byte of the buffer as it was before the call.                     *)
C2_WriteIdempotence ==
    (last.op = "overwrite" /\ last.unmodified /\ last.result.kind = "Ok")
        => last.changed = {}

-----------------------------------------------------------------------------
(* C3: size invariance: after any sequence of overwrite_object calls,      *)
(* successful or failing, the buffer is as long as when it was parsed.     *)
C3_SizeInvariance ==
    phase # "bytes" => Len(bin_raw) = parsed_len

\* two writes were made, one that changed bytes after one that failed or not
C3_Witness ==
    /\ calls.writes = MaxWrites
    /\ last.op = "overwrite"
    /\ last.changed # {}

-----------------------------------------------------------------------------
(* C4: offset relocation: right after a successful Bin::new, for every     *)
(* stub it enumerated the u32 at index 0x40 + stub.offset, read in the     *)
(* console's byte order, is stub.hash, and the registry pairs stub.hash    *)
(* with stub.name.                                                         *)
C4_OffsetRelocation ==
    (last.op = "new" /\ phase = "open") =>
        \A k \in DOMAIN bin_objects :
            /\ SliceOk(bin_raw, 64 + Usize(bin_objects[k].offset),
                       64 + Usize(bin_objects[k].offset) + 4)
            /\ read_u32(bin_console,
                        Slice(bin_raw, 64 + Usize(bin_objects[k].offset),
                              64 + Usize(bin_objects[k].offset) + 4))
                   = Ok(bin_objects[k].hash)
            /\ \E e \in DOMAIN HashTable :
                   HashTable[e] = <<bin_objects[k].hash, bin_objects[k].name>>

\* a file was parsed and several stubs of different classes were enumerated
C4_Witness ==
    /\ last.op = "new"
    /\ phase = "open"
    /\ Len(bin_objects) >= 2
    /\ \E j, k \in DOMAIN bin_objects : bin_objects[j].hash # bin_objects[k].hash

-----------------------------------------------------------------------------
(* C5: write frame: a successful overwrite_object changes no byte outside  *)
(* the range of the target object and the ranges of its hitboxes,          *)
(* projectile or keyframes at their relocated offsets.                     *)
C5_WriteFrame ==
    (last.op = "overwrite" /\ last.result.kind = "Ok") =>
        \A i \in last.changed : \E r \in last.frame : r[1] <= i /\ i < r[2]

-----------------------------------------------------------------------------
(* C6: read-after-write: after a successful overwrite_object(offset, v),   *)
(* get_object_from_offset at the same offset returns an object whose       *)
(* top-level scalar fields equal those of v.                               *)
C6_ReadAfterWrite ==
    (last.op = "overwrite" /\ last.result.kind = "Ok") =>
        \E r \in {get_object_from_offset(Bin, last.object.class, last.offset)} :
            r.kind = "Ok" /\ r.val.f = last.object.f

-----------------------------------------------------------------------------
(* C7: an overwrite_object whose object's class hash differs from the u32  *)
(* stored at 0x40 + offset fails with IncorrectType carrying the hash that *)
(* was found, and no byte of the buffer is modified.                       *)
C7_HashMismatch ==
    (/\ last.op = "overwrite"
     /\ last.found # <<>>
     /\ last.found[1] # ClassHash(last.object.class)) =>
        /\ last.result = Err([type |-> "IncorrectType", hash |-> last.found[1]])
        /\ last.changed = {}

\* a write of an object over an object of another class was refused
C7_Witness ==
    /\ last.op = "overwrite"
    /\ last.found # <<>>
    /\ last.found[1] # ClassHash(last.object.class)
    /\ last.found[1] \in {ClassHash(T) : T \in CodecClasses}

-----------------------------------------------------------------------------
(* The directory as the file lays it out: the gf::DB at file offset 0, its *)
(* entry table at the offset stored at +0x14, the number of entries at     *)
(* +0x18; an entry is a name offset and an object offset.                  *)

\* the u32 at file offset o
FileWord(o) == read_u32(bin_console, <<bin_raw[65 + o], bin_raw[66 + o],
                                       bin_raw[67 + o], bin_raw[68 + o]>>).val

DirCount == Usize(FileWord(24))

DirNameOffset(i) == Usize(FileWord(Usize(FileWord(20)) + 16 * (i - 1)))

DirObjectOffset(i) == Usize(FileWord(Usize(FileWord(20)) + 16 * (i - 1) + 4))

\* the bytes from file offset o up to the first NUL
CStringAt(o) ==
    LET n == CHOOSE n \in 0..(Len(bin_raw) - 64 - o) :
                 /\ bin_raw[65 + o + n] = 0
                 /\ \A j \in 0..(n - 1) : bin_raw[65 + o + j] # 0 IN
    [j \in 1..n |-> bin_raw[64 + o + j]]

DirName(i) == CStringAt(DirNameOffset(i))

\* the file holds a gf::DB at file offset 0 whose entries, their names and the
\* hashes of their objects lie inside the file
HasDirectory ==
    /\ Len(bin_raw) >= 64 + 36
    /\ FileWord(0) = ClassHash("GfDb")
    /\ DirCount >= 1
    /\ Usize(FileWord(20)) + 16 * DirCount + 64 <= Len(bin_raw)
    /\ \A i \in 1..DirCount :
          /\ DirObjectOffset(i) + 64 + 4 <= Len(bin_raw)
          /\ DirNameOffset(i) + 64 < Len(bin_raw)
          /\ \E j \in (65 + DirNameOffset(i))..Len(bin_raw) : bin_raw[j] = 0

DistinctNames == \A i, j \in 1..DirCount : i # j => DirName(i) # DirName(j)

\* the class with a codec whose hash is stored at the object of entry i
DirClass(i) == CodecOf(FileWord(DirObjectOffset(i)))

\* parse returned the mapping of the directory
Resolved ==
    /\ last.result.kind = "Ok"
    /\ DOMAIN last.result.val = {DirName(i) : i \in 1..DirCount}
    /\ \A i \in 1..DirCount :
          /\ DirClass(i) # <<>>
          /\ Ok(last.result.val[DirName(i)])
                 = get_object_from_offset(Bin, DirClass(i)[1], DirObjectOffset(i))
          /\ DirClass(i)[1] = "AttackMoveType" =>
                 last.result.val[DirName(i)].name
                     = CStringAt(Usize(FileWord(DirObjectOffset(i) + 40)))

ListedObjectsRead ==
    \A i \in 1..DirCount :
        /\ DirClass(i) # <<>>
        /\ get_object_from_offset(Bin, DirClass(i)[1], DirObjectOffset(i)).kind = "Ok"

-----------------------------------------------------------------------------
\* the hash stored at the file offset of the last stub resolution
StubHash == FileWord(last.offset)

Registered(hash) == \E e \in DOMAIN HashTable : HashTable[e][1] = hash

RegisteredName(hash) ==
    HashTable[CHOOSE e \in DOMAIN HashTable : HashTable[e][1] = hash][2]

-----------------------------------------------------------------------------
(* C10: bounds failure on typed read: get_object_from_offset::<T>(offset)  *)
(* returns the too-few-bytes error carrying size(T), the size of the       *)
(* buffer and the offset whenever [0x40 + offset, 0x40 + offset + size(T)) *)
(* does not lie inside the buffer, and never indexes out of range.         *)
C10_BoundsFailure ==
    last.op = "get" =>
        /\ 64 + last.offset + ClassSize(last.class) > Len(bin_raw) =>
               last.result = Err([type |-> "NotEnoughBytes",
                                  requested |-> ClassSize(last.class),
                                  file_size |-> Len(bin_raw),
                                  offset |-> last.offset])
        /\ last.result.kind # "Panic"

-----------------------------------------------------------------------------
(* C11: Bin::new yields a result value, Ok or Err, for every buffer and    *)
(* console, buffers shorter than the header and headers whose counts point *)
(* beyond the end of the buffer included; it never panics.                 *)
C11_BinNewTotal ==
    last.op = "new" => last.result.kind \in {"Ok", "Err"}

-----------------------------------------------------------------------------
(* C12: for every byte sequence s, decompress(s) returns an output or an   *)
(* error value: a stream that ends before its terminator, whose literal    *)
(* run exceeds the remaining input or whose back-reference reaches before  *)
(* the start of the output never panics.                                   *)
C12_MalformedStreams ==
    cPc = "done" => cOutput.kind \in {"Ok", "Err"}

-----------------------------------------------------------------------------
(* C13: minimal decompression: decompress applied to the two-byte input    *)
(* 00 00 terminates and returns the empty output.                          *)
C13_MinimalDecompression ==
    (cPc = "done" /\ cStream = <<0, 0>>) => cOutput = Ok(<<>>)

\* the minimal stream of the code: the literal-run token 00 followed by the
\* terminator 00 00 decodes to the empty output; 00 00 alone ends inside the
\* terminator and gives no output
C13_MinimalStream ==
    cPc = "done" =>
        /\ cStream = <<0, 0, 0>> => cOutput = Ok(<<>>)
        /\ cStream = <<0, 0>> => cOutput.kind # "Ok"

\* the three-byte stream was decoded
C13_Witness ==
    cPc = "done" /\ cStream = <<0, 0, 0>> /\ cOutput = Ok(<<>>)

-----------------------------------------------------------------------------
(* C20: encoder output format: for an input of length L, compress emits k  *)
(* blocks F8 FF FF + the next 0x1011D input bytes, k the number of times   *)
(* more than 0x1011D bytes remain; then for the last R = L - k * 0x1011D   *)
(* bytes one header chosen by R (F8, low byte, high byte of R - 0x11E when *)
(* R > 0x11D; F0, R - 0x1E when 0x1D < R <= 0x11D; the byte R << 3         *)
(* otherwise), the R bytes, and the terminator 00 00.                      *)
C20_EncoderFormat ==
    (cPc \in {"compressed", "done"} /\ cInput \in CodecInputs) =>
        LET L == Len(cInput)
            k == IF L = 0 THEN 0 ELSE (L - 1) \div MAX_DISTANCE
            R == L - k * MAX_DISTANCE
            block == MAX_DISTANCE + 3
            header == IF R > 285 THEN <<248, (R - 286) % 256, (R - 286) \div 256>>
                      ELSE IF R > 29 THEN <<240, R - 30>>
                      ELSE <<R * 8>>
            tail == k * block + Len(header)
        IN  /\ Len(cStream) = tail + R + 2
            /\ \A b \in 0..(k - 1) :
                   /\ SubSeq(cStream, b * block + 1, b * block + 3) = <<248, 255, 255>>
                   /\ SubSeq(cStream, b * block + 4, (b + 1) * block)
                          = SubSeq(cInput, b * MAX_DISTANCE + 1, (b + 1) * MAX_DISTANCE)
            /\ SubSeq(cStream, k * block + 1, tail) = header
            /\ SubSeq(cStream, tail + 1, tail + R) = SubSeq(cInput, L - R + 1, L)
            /\ SubSeq(cStream, tail + R + 1, tail + R + 2) = <<0, 0>>
            /\ \A i \in 1..Len(header) : header[i] \in 0..255

\* an input of two max-length blocks and a final chunk was encoded
C20_Witness ==
    cPc = "compressed" /\ Len(cInput) > 2 * MAX_DISTANCE

-----------------------------------------------------------------------------
(* C14: endianness symmetry: on every console, read_u32 of the bytes       *)
(* write_u32 returned for n gives n, and read_f32 of the bytes write_f32   *)
(* returned for f gives the same 32-bit pattern.                           *)
C14_EndiannessSymmetry ==
    nPc \in {"round_u32", "round_f32"} => nResult = Ok(nValue)

\* a value whose four bytes differ was written and read back on a
\* little-endian console
C14_Witness ==
    /\ nPc = "round_f32"
    /\ nConsole = "Xbox"
    /\ nValue = <<127, 192, 0, 1>>
    /\ nResult.kind = "Ok"

-----------------------------------------------------------------------------
(* C15: byte order per console: write_u32 returns exactly 4 bytes, the     *)
(* most significant first on the Gamecube and the least significant first  *)
(* on PC, PS2 and Xbox; read_u32 takes its first 4 bytes in the same       *)
(* order: 01 02 03 04 is 0x01020304 on the Gamecube and 0x04030201 on PC.  *)
C15_ByteOrder ==
    LET place(i) == IF nConsole = "Gamecube" THEN i ELSE 5 - i IN
    /\ nPc = "written_u32" =>
           /\ Len(nBytes) = 4
           /\ \A i \in 1..4 : nBytes[i] = nValue[place(i)]
    /\ (nPc = "read_u32" /\ Len(nBytes) >= 4) =>
           /\ nResult.kind = "Ok"
           /\ \A i \in 1..4 : nResult.val[place(i)] = nBytes[i]
    /\ (nPc = "read_u32" /\ nBytes = <<1, 2, 3, 4>>) =>
           nResult = Ok(W(IF nConsole = "Gamecube" THEN 16909060 ELSE 67305985))
    /\ (nPc = "written_u32" /\ nValue = W(67305985)) =>
           nBytes = IF nConsole = "Gamecube" THEN <<4, 3, 2, 1>> ELSE <<1, 2, 3, 4>>

\* 01 02 03 04 was read on the PS2
C15_Witness ==
    nPc = "read_u32" /\ nBytes = <<1, 2, 3, 4>> /\ nConsole = "PS2"

-----------------------------------------------------------------------------
(* C16: read_u32 and read_f32 given fewer than 4 bytes return the          *)
(* too-few-bytes error and no value; given more than 4 bytes they succeed  *)
(* and the result is the one of the first 4 bytes alone.                   *)
C16_ShortAndLongInput ==
    nPc \in {"read_u32", "read_f32"} =>
        /\ Len(nBytes) < 4 => nResult = Err(TooFewBytes)
        /\ Len(nBytes) > 4 =>
               /\ nResult.kind = "Ok"
               /\ nResult = IF nPc = "read_u32"
                            THEN read_u32(nConsole, SubSeq(nBytes, 1, 4))
                            ELSE read_f32(nConsole, SubSeq(nBytes, 1, 4))
               /\ \A i \in 1..4 :
                      nResult.val[IF nConsole = "Gamecube" THEN i ELSE 5 - i] = nBytes[i]

\* a float was read from six bytes whose last differ from the first
C16_Witness ==
    /\ nPc = "read_f32"
    /\ nBytes = <<0, 1, 255, 0, 1, 1>>
    /\ nResult.kind = "Ok"

-----------------------------------------------------------------------------
-----------------------------------------------------------------------------
(* C19: MASTER.DIR parsing: from_bytes returns one entry per non-zero      *)
(* offset of the leading offset table (whose byte length is the first      *)
(* word), in table order; an entry's offset, decomp_size and comp_size are *)
(* the three consecutive u32 at its start, in the console's byte order,    *)
(* and its name is the bytes from +12 up to the next table offset, or to   *)
(* the end of the file for the last entry.                                 *)

\* the k-th word of the offset table
TableWord(bytes, c, k) == NumAt(bytes, c, 4 * (k - 1))

\* the number of words of the offset table
TableLen(bytes, c) == TableWord(bytes, c, 1) \div 4

\* the file keeps to the format: the table is a list of ascending offsets
\* closed by one zero word, and every entry has its twelve bytes and an ASCII
\* name inside the file
WellFormedDir(bytes, c) ==
    /\ Len(bytes) >= 8
    /\ TableWord(bytes, c, 1) % 4 = 0
    /\ TableWord(bytes, c, 1) >= 8
    /\ TableWord(bytes, c, 1) <= Len(bytes)
    /\ LET n == TableLen(bytes, c)
           end(k) == IF k = n - 1 THEN Len(bytes) ELSE TableWord(bytes, c, k + 1) IN
       /\ TableWord(bytes, c, n) = 0
       /\ \A k \in 1..(n - 1) :
              /\ TableWord(bytes, c, k) # 0
              /\ TableWord(bytes, c, k) + 12 <= end(k)
              /\ end(k) <= Len(bytes)
              /\ \A i \in (TableWord(bytes, c, k) + 13)..end(k) : bytes[i] < 128

\* the entries of a file that keeps to the format, as the claim words them
EntriesOf(bytes, c) ==
    LET n == TableLen(bytes, c)
        end(k) == IF k = n - 1 THEN Len(bytes) ELSE TableWord(bytes, c, k + 1)
        word(i) == read_u32(c, SubSeq(bytes, i + 1, i + 4)).val IN
    [k \in 1..(n - 1) |->
        [offset      |-> word(TableWord(bytes, c, k)),
         decomp_size |-> word(TableWord(bytes, c, k) + 4),
         comp_size   |-> word(TableWord(bytes, c, k) + 8),
         name        |-> SubSeq(bytes, TableWord(bytes, c, k) + 13, end(k))]]

-----------------------------------------------------------------------------
(* C18: archive length precondition: update_file(path, data) returns Err   *)
(* carrying the decompressed length of the file stored at path, and leaves *)
(* every stored file and every directory entry unchanged, whenever         *)
(* len(data) differs from that length; it accepts the update only when the *)
(* lengths are equal.  Stated for a stored file that decompresses.         *)

\* the last call was update_file on a stored file that decompresses
UpdatedStored ==
    /\ aLast.op = "update_file"
    /\ aLast.path \in DOMAIN aLast.before.files
    /\ decompress(aLast.before.files[aLast.path]).kind = "Ok"

\* the decompressed length of the file that was stored at the path
StoredLength == Len(decompress(aLast.before.files[aLast.path]).val)

C18_LengthPrecondition ==
    UpdatedStored =>
        IF Len(aLast.data) # StoredLength
        THEN /\ aLast.result = Err(StoredLength)
             /\ dat_files = aLast.before.files
             /\ dir_entries = aLast.before.entries
        ELSE aLast.result.kind = "Ok"

\* an update of the wrong length was refused on a loaded file whose stored
\* bytes are longer than the file
C18_Witness ==
    /\ UpdatedStored
    /\ aLast.result.kind = "Err"
    /\ aLast.result.err = 4
    /\ Len(aLast.before.files[aLast.path]) = 6
    /\ Len(aLast.data) = 2
    /\ dir_entries # <<>>

-----------------------------------------------------------------------------
(* C21: rolling back-reference copy: a back-reference token with length    *)
(* len and distance dist2 appends len bytes one at a time, each equal to   *)
(* the byte at index output.length - 1 - dist2 at the moment it is         *)
(* appended; for len > dist2 + 1 the appended bytes repeat the last        *)
(* dist2 + 1 output bytes periodically.                                    *)

\* the stream is a literal run of n bytes, one back-reference token and the
\* end of the stream, and was decompressed
OneBackReference(n, length, distance) ==
    /\ cPc = "done"
    /\ cStream = BackStream(n, length, distance)

C21_RollingCopy ==
    \A n \in 1..MaxRun, length \in 1..9, distance \in 0..(MaxRun - 1) :
        (OneBackReference(n, length, distance) /\ distance < n) =>
            /\ cOutput.kind = "Ok"
            /\ Len(cOutput.val) = n + length
            /\ \A i \in 1..n : cOutput.val[i] = cStream[i + 1]
            /\ \A i \in (n + 1)..(n + length) :
                   cOutput.val[i] = cOutput.val[i - 1 - distance]

\* three literals, then eight bytes copied from distance 1: the last two
\* bytes, four times over
C21_Witness ==
    /\ OneBackReference(3, 8, 1)
    /\ cOutput = Ok(<<65, 66, 67, 66, 67, 66, 67, 66, 67, 66, 67>>)

-----------------------------------------------------------------------------
(* C22: derived pointer-table offsets: the buffer offset given to the      *)
(* pointer table of section i (in declaration order) is 0x40 + rootSize    *)
(* + 16 * sectionCount + 128 * depCount + 64 * offset4Count + 4 * (the sum *)
(* of count_j over the sections j < i), whatever the sections' kinds.      *)

\* the fields of the header and of the section descriptors, read from the
\* buffer
RootSize == NumAt(bin_raw, bin_console, 16)
SectionCount == NumAt(bin_raw, bin_console, 24)
DepCount == NumAt(bin_raw, bin_console, 36)
Offset4Count == NumAt(bin_raw, bin_console, 44)
SectionKind(i) == NumAt(bin_raw, bin_console, 64 + RootSize + 16 * (i - 1))
SectionSize(i) == NumAt(bin_raw, bin_console, 64 + RootSize + 16 * (i - 1) + 4)

\* the sum of count_j over the sections j < i
RECURSIVE CountsBefore(_)
CountsBefore(i) == IF i <= 1 THEN 0 ELSE SectionSize(i - 1) + CountsBefore(i - 1)

\* the offset the claim gives the pointer table of section i (counted from 1)
TableOffset(i) ==
    64 + RootSize + 16 * SectionCount + 128 * DepCount + 64 * Offset4Count
        + 4 * CountsBefore(i)

\* Bin::new was called on a buffer that holds the header and the section
\* descriptors the header counts
DescriptorsParsed ==
    /\ last.op = "new"
    /\ Len(bin_raw) >= 64
    /\ 64 + RootSize + 16 * SectionCount <= Len(bin_raw)

C22_DerivedOffsets ==
    DescriptorsParsed =>
        \A build \in Builds :
            \E tables \in {Bin_tables(bin_raw, bin_console, build)} :
                /\ tables.kind = "Ok"
                /\ Len(tables.val) = SectionCount
                /\ \A i \in 1..SectionCount :
                       tables.val[i].offset = W(TableOffset(i))

\* the file of four sections was parsed: kinds 2, 1, 3, 1 with 2, 2, 1, 1
\* pointers, the last table 20 bytes after the first
C22_Witness ==
    /\ DescriptorsParsed
    /\ phase = "open"
    /\ SectionCount = 4
    /\ SectionKind(1) = 2
    /\ SectionKind(3) = 3
    /\ DepCount = 2
    /\ Bin_tables(bin_raw, bin_console, "release").val[4].offset
           = W(64 + 48 + 64 + 256 + 64 + 20)

-----------------------------------------------------------------------------
(* C23: object enumeration: after a successful Bin::new, objects() is the  *)
(* concatenation, over the sections of kind 1 in declaration order, of one *)
(* stub per entry of the section's pointer table in table order, with      *)
(* stub.offset the file-relative offset stored in the entry; sections of   *)
(* any other kind contribute no stub.                                      *)

\* the entries of the pointer tables of the sections i.. of kind 1
RECURSIVE EntriesFrom(_)
EntriesFrom(i) ==
    IF i > SectionCount THEN <<>>
    ELSE (IF SectionKind(i) = 1
          THEN [k \in 1..SectionSize(i) |->
                   WordAt(bin_raw, bin_console, TableOffset(i) + 4 * (k - 1))]
          ELSE <<>>) \o EntriesFrom(i + 1)

C23_ObjectEnumeration ==
    (last.op = "new" /\ phase = "open") =>
        [k \in DOMAIN bin_objects |-> bin_objects[k].offset] = EntriesFrom(1)

\* the file of four sections: the stubs of the second and the fourth section,
\* none of the first and the third
C23_Witness ==
    /\ last.op = "new"
    /\ phase = "open"
    /\ SectionCount = 4
    /\ SectionKind(1) = 2
    /\ [k \in DOMAIN bin_objects |-> bin_objects[k].offset] = <<W(32), W(0), W(16)>>

-----------------------------------------------------------------------------
(* C24: child offset re-derivation: when AttackMoveType (or Spitter) write *)
(* runs at objectOffset, the object's recorded child offsets are used only *)
(* if they are present and the object's element count equals the element  *)
(* count stored in the buffer at objectOffset; whenever the object's count *)
(* is larger or smaller than the on-disk count (or no offsets were         *)
(* recorded), the child offsets are re-read from the pointer table in the  *)
(* buffer at objectOffset.                                                 *)

\* the last call was a write of an attack or a spitter that ran to its end;
\* the scalar fields it wrote first do not touch the count at +0x24 nor the
\* pointer at +0x20, so the buffer of before the call shows what write read
WroteParent ==
    /\ last.op = "overwrite"
    /\ last.result.kind = "Ok"
    /\ last.object.class \in {"AttackMoveType", "Spitter"}

\* the offsets the object recorded when it was read
Recorded(object) ==
    IF object.class = "AttackMoveType" THEN object.hitbox_offsets
    ELSE object.keyframe_offsets

\* the element count stored in the buffer at the object
OnDiskCount == NumAt(last.before, bin_console, last.offset + header_length + 36)

\* the offsets of the pointer table in the buffer at the object
FromTable ==
    IF last.object.class = "AttackMoveType"
    THEN Relocated(hitbox_offsets(last.before, last.offset + header_length,
                                  bin_console), "release")
    ELSE Relocated(keyframe_offsets(last.before, last.offset + header_length,
                                    bin_console), "release")

\* the offsets write used
InUse ==
    IF last.object.class = "AttackMoveType"
    THEN hitbox_offsets_in_use(last.object, last.before, bin_console,
                               last.offset + header_length, "release")
    ELSE keyframe_offsets_in_use(last.object, last.before, bin_console,
                                 last.offset + header_length, "release")

C24_ChildOffsetSource ==
    WroteParent =>
        InUse = IF /\ Recorded(last.object) # <<>>
                   /\ Len(Children(last.object)) = OnDiskCount
                THEN Ok(Recorded(last.object))
                ELSE FromTable

-----------------------------------------------------------------------------
(* C25: positional zip on write-back: element i of the in-memory           *)
(* collection is written into the child object that begins at buffer index *)
(* 0x40 + o_i, where o_i is the i-th file-relative child offset of the     *)
(* list in use (recorded or re-derived); exactly min(number of offsets,    *)
(* number of elements) children are written, the rest are left untouched,  *)
(* and a count mismatch raises no error.                                   *)

\* the file-relative offsets of the list in use: the recorded ones as they
\* are, the re-derived ones as the pointer table holds them
FileRelativeInUse ==
    IF InUse = Ok(Recorded(last.object)) THEN Recorded(last.object)
    ELSE [k \in DOMAIN InUse.val |->
             W(Usize(InUse.val[k]) - header_length)]

ChildWrites ==
    IF last.object.class = "AttackMoveType" THEN AttackMoveRegionWrites
    ELSE SpitterKeyframeWrites

ChildClass ==
    IF last.object.class = "AttackMoveType" THEN "AttackMoveRegion"
    ELSE "SpitterKeyframe"

\* the buffer holds the fields of `element` in the child at file offset o:
\* writing them there again changes nothing
HoldsChild(o, element) ==
    WriteFields(bin_raw, bin_console, header_length + Usize(o), ChildWrites,
                element.f) = Written(bin_raw)

C25_PositionalZip ==
    (/\ last.op = "overwrite"
     /\ last.object.class \in {"AttackMoveType", "Spitter"}
     /\ last.found = <<ClassHash(last.object.class)>>) =>
        /\ last.result.kind = "Ok"
        /\ \A i \in DOMAIN FileRelativeInUse :
               IF i <= Len(Children(last.object))
               THEN HoldsChild(FileRelativeInUse[i], Children(last.object)[i])
               ELSE \A b \in last.changed :
                        LET r == RangeOf(ChildClass, Usize(FileRelativeInUse[i])) IN
                        ~(r[1] <= b /\ b < r[2])

-----------------------------------------------------------------------------
(* C26: string extraction: get_str_from_offset(offset) decodes exactly the *)
(* bytes from buffer index 0x40 + offset up to but excluding the first     *)
(* zero byte at or after that index; when no zero byte occurs before the   *)
(* end of the buffer, the string extends to the end of the buffer.         *)

\* the 0-based indices from `start` on that hold a zero byte
ZerosFrom(start) == {i \in start..(Len(bin_raw) - 1) : At(bin_raw, i) = 0}

\* the end of the string that starts at `start`: the first zero byte, or the
\* end of the buffer
StringEnd(start) ==
    IF ZerosFrom(start) = {} THEN Len(bin_raw)
    ELSE CHOOSE i \in ZerosFrom(start) : \A j \in ZerosFrom(start) : i <= j

C26_StringExtraction ==
    (last.op = "get_str" /\ header_length + last.offset <= Len(bin_raw)) =>
        last.result = Ok(Slice(bin_raw, header_length + last.offset,
                               StringEnd(header_length + last.offset)))

-----------------------------------------------------------------------------
(* C27: error propagation in parse and nested reads: Bin::parse returns Ok *)
(* only if every directory entry resolves; if an entry's class has no      *)
(* codec, or a nested object reached through an offset field has the wrong *)
(* class hash or lies out of bounds, the error is returned to the caller   *)
(* as an error value: no entry is dropped and the read does not abort.     *)
C27_ErrorPropagation ==
    (last.op = "parse" /\ HasDirectory) =>
        /\ last.result.kind \in {"Ok", "Err"}
        /\ last.result.kind = "Ok" =>
               \A i \in 1..DirCount :
                   /\ DirName(i) \in DOMAIN last.result.val
                   /\ DirClass(i) # <<>>


-----------------------------------------------------------------------------
(* C28: archive offset bookkeeping: after any sequence of add_file and     *)
(* successful update_file calls on a MasterDat made empty, every entry i   *)
(* of the directory has comp_size_i equal to the length of the compressed  *)
(* bytes stored under its name and offset_i equal to the sum of            *)
(* padded(comp_size_j) over the entries j before i, which is the position  *)
(* at which to_bytes places that file in the MASTER.DAT bytes.             *)

\* the compressed bytes stored under the name of entry i
StoredUnder(i) == dat_files[trim_end_matches(dir_entries[i].name)]

\* the sum of padded(comp_size_j) over the entries j before i
RECURSIVE PaddedBefore(_)
PaddedBefore(i) ==
    IF i <= 1 THEN 0
    ELSE PaddedBefore(i - 1) + padded_size(Usize(dir_entries[i - 1].comp_size))

\* the bookkeeping of entry i
BookKept(i) ==
    /\ trim_end_matches(dir_entries[i].name) \in DOMAIN dat_files
    /\ Usize(dir_entries[i].comp_size) = Len(StoredUnder(i))
    /\ Usize(dir_entries[i].offset) = PaddedBefore(i)

\* to_bytes has the file of entry i at the entry's offset
PlacedAt(bytes, i) ==
    /\ Usize(dir_entries[i].offset) + Len(StoredUnder(i)) <= Len(bytes)
    /\ Slice(bytes, Usize(dir_entries[i].offset),
             Usize(dir_entries[i].offset) + Len(StoredUnder(i))) = StoredUnder(i)

C28_OffsetBookkeeping ==
    aPc = "made" =>
        /\ \A i \in DOMAIN dir_entries : BookKept(i)
        /\ aLast.op = "to_bytes" =>
               /\ aLast.result.kind = "Ok"
               /\ \A i \in DOMAIN dir_entries : PlacedAt(aLast.result.val, i)

-----------------------------------------------------------------------------
(* C29: class hashes survive writes: after any sequence of overwrite_object *)
(* calls on a parsed container, with objects read from the buffer or       *)
(* rebuilt without recorded offsets, the four hash bytes at the relocated  *)
(* offset of every enumerated object are those Bin::new found there, so    *)
(* every object keeps its class.                                           *)

\* the hash in the buffer at the relocated offset of the k-th enumerated object
HashInBuffer(k) == WordAt(bin_raw, bin_console, header_length + Usize(bin_objects[k].offset))

C29_HashesSurvive ==
    (phase \in {"open", "aborted"} /\ calls.writes > 0) =>
        \A k \in DOMAIN bin_objects : HashInBuffer(k) = bin_objects[k].hash

-----------------------------------------------------------------------------
(* C30: MASTER.DIR write/read round trip: for every MasterDir with n >= 1  *)
(* entries, MasterDir::from_bytes of the bytes MasterDir::write produced,  *)
(* for the same console, yields exactly n entries, in the same order, with *)
(* the same offset, decomp_size and comp_size and the same name after      *)
(* trailing zero bytes are trimmed.                                        *)

\* the file on disk is the one MasterDir::write made of at least one entry
WrittenDir == aLast.op = "write" /\ Len(aLast.entries) >= 1

\* the entry read back is the entry written
SameEntry(read, written) ==
    /\ read.offset = written.offset
    /\ read.decomp_size = written.decomp_size
    /\ read.comp_size = written.comp_size
    /\ trim_end_matches(read.name) = trim_end_matches(written.name)

C30_DirRoundTrip ==
    WrittenDir =>
        \E r \in {MasterDir_from_bytes(dir_bytes, dir_console)} :
            /\ r.kind = "Ok"
            /\ Len(r.val) = Len(aLast.entries)
            /\ \A i \in DOMAIN r.val : SameEntry(r.val[i], aLast.entries[i])
====
